---- MODULE Spec2Model ----
(***************************************************************************)
(* A state-machine model of the network subsystem of IP-Chat               *)
(* (src-tauri/src): the file-transfer engine (file_transfer.rs) and the    *)
(* connection manager (connection_manager.rs).                             *)
(*                                                                         *)
(* Two nodes run the same program.  Sizes are counted in bytes: files are  *)
(* multiples of Block bytes long, and a read of a socket returns and a     *)
(* poll of a write takes a multiple of Segment bytes.  Time is counted in  *)
(* seconds and passes in steps of TimeStep seconds.                        *)
(***************************************************************************)
EXTENDS Integers, Sequences, FiniteSets, TLC

(***************************************************************************)
(* Bounds of the model.                                                    *)
(***************************************************************************)
Block == 65536
Segment == 32768
MaxBlocks == 2
MaxTransfers == 1
MaxStreams == 1
MaxCtrl == 1
MaxCommands == 3
TimeStep == 30
MaxAge == 330
MaxConns == 3
DiscoveryStep == 15
MaxSeen == 645
MaxDaemons == 3
MaxMessages == 2
MaxRemote == 1
MaxNow == 1
MaxBucket == 2
MaxEnvelopes == 2
MaxEvents == 2
MaxOwn == 1

(***************************************************************************)
(* Program constants.                                                      *)
(***************************************************************************)
CHUNK_SIZE == 65536
HEARTBEAT_INTERVAL == 30
StopCapacity == 1
CONNECTION_IDLE_TIMEOUT == 300
DISCOVERY_INTERVAL == 30
PEER_TIMEOUT == 600

Nodes == {"alpha", "beta"}
Peer(n) == IF n = "alpha" THEN "beta" ELSE "alpha"
\* The nodes whose user offers files (the program is the same on every node).
Senders == {"alpha"}

\* User.id and User.ip of the local user of each node (lib.rs run()).
local_user == [alpha |-> [id |-> "user-12345678", ip |-> "192.168.1.10"],
               beta  |-> [id |-> "user-87654321", ip |-> "192.168.1.11"]]

\* The node that listens at an address (TcpStream::connect(ip:8766)).
NodeAt(ip) == CHOOSE n \in Nodes : local_user[n].ip = ip

TransferIds == 1..MaxTransfers
FileSizes == {k * Block : k \in 0..MaxBlocks}
NoFile == -1
NoMeta == -2
NoName == -3

Min(a, b) == IF a <= b THEN a ELSE b

\* enum TransferStatus
TransferStatus == {"Pending", "InProgress", "Completed", "Rejected", "Cancelled", "Failed"}
Terminal == {"Completed", "Rejected", "Cancelled", "Failed"}

VARIABLES
    transfers,   \* per node: FileTransferManager.transfers, transfer-id -> FileTransfer
    nextId,      \* the next transfer-id Uuid::new_v4() hands out
    ctrl,        \* JSON records written on control connections, not yet handled
    streams,     \* data connections with the task at each end
    commands,    \* the number of accept, reject and cancel commands issued so far
    fcall        \* per node: the command of the file-transfer manager that is
                 \* awaiting the network, the record it sends, and what the
                 \* last command of the node has returned

VARIABLES
    connections, \* ConnectionManager.connections: peer-id -> connection, or NoConn
    conns,       \* the PeerConnection objects alive: peer_id, is_active, and
                 \* idle_for = last_activity.elapsed()
    nextConn,    \* the next PeerConnection a successful dial creates
    map_lock,    \* the holder of the lock of the connection map
    stream_lock, \* per PeerConnection: the holder of the lock of its stream
    call,        \* per caller: the send_message call it is in
    hb,          \* the heartbeat task
    untilTick    \* seconds until the next tick of the heartbeat interval

VARIABLES
    peers,              \* NetworkDiscovery.peers: user-id -> seconds since last_seen
    is_running,         \* NetworkDiscovery.is_running
    service_registered, \* NetworkDiscovery.service_registered
    daemon,             \* NetworkDiscovery.daemon, or NoDaemon
    stop_tx,            \* NetworkDiscovery.stop_tx: the task it signals, or NoDaemon
    advertising,        \* the daemons that advertise the instance of the node
    tasks,              \* the event-processor tasks alive: stop signal received,
                        \* seconds until the next tick of cleanup_interval
    nextDaemon,         \* the next ServiceDaemon start_discovery creates
    dcall,              \* the discovery command in progress or last returned
    last_resolved,      \* the user-id of the last ServiceResolved event handled
    addresses,          \* NetworkDiscovery.peers: user-id -> User.ip of the record
    emitted,            \* the events the event-processor task has emitted for the
                        \* latest event it has handled
    username,           \* AppState.local_user.name
    txt,                \* per advertising daemon: the user name in the TXT record
                        \* "user" of the instance it has registered
    receiver            \* the sessions whose mDNS receiver thread is in its loop

VARIABLES
    cmd,         \* the command send_message of lib.rs in progress or last returned
    nextMsg,     \* the next message id Uuid::new_v4() hands out
    messages,    \* ChatManager.messages of the node: bucket id -> messages
    events,      \* per user: the events the node of that user has emitted
    wire,        \* per stream: the user listening on it, the bytes written on it
                 \* and not yet read, and the envelopes written and answered
    now,         \* chrono::Utc::now(), in ticks of the clock
    marked,      \* the last call of ChatManager::mark_messages_as_read
    reading,     \* per stream: the read loop of its handler has not been left
    responding   \* per stream: its handler awaits the write_all of a
                 \* heartbeat_response (connection_manager.rs 303)

ftvars == <<transfers, nextId, ctrl, streams, commands, fcall>>
discvars == <<peers, is_running, service_registered, daemon, stop_tx, advertising,
              tasks, nextDaemon, dcall, last_resolved, addresses, emitted, username, txt,
              receiver>>
chatvars == <<cmd, nextMsg, messages, events, wire, now, marked, reading, responding>>
cmvars == <<connections, conns, nextConn, map_lock, stream_lock, call, hb, untilTick>>
vars == <<transfers, nextId, ctrl, streams, commands, fcall,
          connections, conns, nextConn, map_lock, stream_lock, call, hb, untilTick,
          peers, is_running, service_registered, daemon, stop_tx, advertising,
          tasks, nextDaemon, dcall, last_resolved, addresses, emitted,
          username, txt, receiver,
          cmd, nextMsg, messages, events, wire, now, marked, reading, responding>>

(***************************************************************************)
(* models.rs: FileTransfer and its JSON form (serde, camelCase).           *)
(***************************************************************************)
ToJson(t) ==
    [id |-> t.id, senderId |-> t.sender_id, recipientId |-> t.recipient_id,
     senderIp |-> t.sender_ip, recipientIp |-> t.recipient_ip,
     fileSize |-> t.file_size, sourcePath |-> t.source_path,
     destinationPath |-> t.destination_path, status |-> t.status,
     bytesTransferred |-> t.bytes_transferred, error |-> t.error]

FromJson(j) ==
    [id |-> j.id, sender_id |-> j.senderId, recipient_id |-> j.recipientId,
     sender_ip |-> j.senderIp, recipient_ip |-> j.recipientIp,
     file_size |-> j.fileSize, source_path |-> j.sourcePath,
     destination_path |-> j.destinationPath, status |-> j.status,
     bytes_transferred |-> j.bytesTransferred, error |-> j.error]

Has(n, id) == id \in DOMAIN transfers[n]

\* A map that does not take the record.
InsertSkipped(n, t) == transfers

\* transfers.insert(id, t) on node n
Insert(n, t) ==
    [transfers EXCEPT ![n] =
        [i \in (DOMAIN transfers[n]) \cup {t.id} |->
            IF i = t.id THEN t ELSE transfers[n][i]]]

\* No record: the call of the node sends nothing.
NoTransfer ==
    [id |-> 0, sender_id |-> "None", recipient_id |-> "None", sender_ip |-> "None",
     recipient_ip |-> "None", file_size |-> 0, source_path |-> "None",
     destination_path |-> "None", status |-> "None", bytes_transferred |-> 0,
     error |-> "None"]

\* The command of node n has left the lock of the map and awaits the network
\* with its clone of the record.
Awaiting(n, pc, transfer) ==
    [fcall EXCEPT ![n] = [pc |-> pc, transfer |-> transfer, result |-> @.result]]

\* The variables of the chat part a command of the file transfers leaves
\* alone: all but the events.
nonevents == <<cmd, nextMsg, messages, wire, now, marked, reading, responding>>

\* emit_event(name, payload) on the node of user u.
emit_event(evs, u, name, payload) ==
    [evs EXCEPT ![u] = Append(@, [name |-> name, payload |-> payload])]

\* FileTransferManager::get_all_transfers on node n of the map: the values
\* of the map.
get_all_transfers(map, n) == {map[n][id] : id \in DOMAIN map[n]}

\* The command of node n returns result (lib.rs 295-393): on Ok it emits the
\* event name with the payload first; the lock of AppState is free again.
Returned(n, result, name, payload) ==
    /\ fcall' = [fcall EXCEPT ![n] = [pc |-> "idle", transfer |-> NoTransfer,
                                      result |-> result]]
    /\ events' = IF result = "Ok"
                 THEN emit_event(events, local_user[n].id, name, payload)
                 ELSE events

FTInit ==
    /\ transfers = [n \in Nodes |-> <<>>]
    /\ nextId = 1
    /\ ctrl = {}
    /\ streams = {}
    /\ commands = 0
    /\ fcall = [n \in Nodes |-> [pc |-> "idle", transfer |-> NoTransfer, result |-> "None"]]

\* The paths send_file_with_peer can be given: a file of some length, a path
\* that does not exist (NoFile), a path on which metadata() fails (NoMeta),
\* and a path that exists, has metadata and has no final component, as "/"
\* and ".." (NoName).
PathInputs == FileSizes \cup {NoFile, NoMeta, NoName}

\* The command of node n ends in a panic: nothing is returned and nothing is
\* emitted; the unwinding drops the guard of AppState, whose lock is free
\* again.
Panicked(n) ==
    /\ fcall' = [fcall EXCEPT ![n] = [pc |-> "idle", transfer |-> NoTransfer,
                                      result |-> "Panic"]]
    /\ UNCHANGED events

(***************************************************************************)
(* send_file_with_peer up to the await (file_transfer.rs 155-191).  meta = *)
(* the length of the file at file_path as metadata() reports it, NoFile if *)
(* the path does not exist, NoMeta if metadata() fails on it, or NoName if *)
(* the path has no final component: path.file_name() is None and the       *)
(* unwrap() of line 177 panics while the record is built, before the       *)
(* insert.  The command holds the lock of AppState: no other command of    *)
(* the node runs until it has returned.                                    *)
(***************************************************************************)
send_file_with_peer(n, meta) ==
    /\ UNCHANGED <<cmvars, discvars, nonevents>>
    /\ UNCHANGED commands
    /\ fcall[n].pc = "idle"
    /\ nextId <= MaxTransfers
    /\ Len(events[local_user[n].id]) < MaxEvents
    /\ IF meta = NoFile
       THEN \* Err(FileNotFound)
            /\ Returned(n, "FileNotFound", "file_transfer_update", NoTransfer)
            /\ UNCHANGED <<transfers, nextId>>
       ELSE IF meta = NoMeta
       THEN \* Err(IoError)
            /\ Returned(n, "IoError", "file_transfer_update", NoTransfer)
            /\ UNCHANGED <<transfers, nextId>>
       ELSE IF meta = NoName
       THEN \* path.file_name().unwrap() on None
            /\ Panicked(n)
            /\ UNCHANGED <<transfers, nextId>>
       ELSE LET transfer == [id |-> nextId,
                             sender_id |-> local_user[n].id,
                             recipient_id |-> local_user[Peer(n)].id,
                             sender_ip |-> local_user[n].ip,
                             recipient_ip |-> local_user[Peer(n)].ip,
                             file_size |-> meta,
                             source_path |-> "src",
                             destination_path |-> "None",
                             status |-> "Pending",
                             bytes_transferred |-> 0,
                             error |-> "None"]
            IN /\ transfers' = Insert(n, transfer)
               /\ nextId' = nextId + 1
               /\ fcall' = Awaiting(n, "request", transfer)
               /\ UNCHANGED events
    /\ UNCHANGED <<ctrl, streams>>

(***************************************************************************)
(* The command send_file of lib.rs (295-324) up to the await: the peer is  *)
(* looked up in the directory of the node; found = the directory holds the *)
(* peer.  Not found, the command returns its error; found,                 *)
(* send_file_with_peer is called with the address of the peer.             *)
(***************************************************************************)
send_file(n, found, meta) ==
    IF found
    THEN send_file_with_peer(n, meta)
    ELSE /\ UNCHANGED <<cmvars, discvars, nonevents>>
         /\ fcall[n].pc = "idle"
         /\ nextId <= MaxTransfers
         /\ Returned(n, "PeerNotFound", "file_transfer_update", NoTransfer)
         /\ UNCHANGED <<transfers, nextId, ctrl, streams, commands>>

(***************************************************************************)
(* send_transfer_request (file_transfer.rs 194-230): the clone of the      *)
(* record is written as JSON on a control connection to the peer, and      *)
(* send_file_with_peer returns.  ok = the dial, the write and the flush    *)
(* succeed.  On Ok the command send_file emits file_transfer_update with   *)
(* the record send_file_with_peer has returned (lib.rs 314-318).           *)
(***************************************************************************)
send_transfer_request(n, ok) ==
    /\ UNCHANGED <<cmvars, discvars, nonevents>>
    /\ UNCHANGED commands
    /\ fcall[n].pc = "request"
    /\ ok => Cardinality(ctrl) < MaxCtrl
    /\ ctrl' = IF ok
               THEN ctrl \cup {[to |-> NodeAt(fcall[n].transfer.recipient_ip),
                                json |-> ToJson(fcall[n].transfer)]}
               ELSE ctrl
    /\ Returned(n, IF ok THEN "Ok" ELSE "NetworkError",
                "file_transfer_update", fcall[n].transfer)
    /\ UNCHANGED <<transfers, nextId, streams>>

(***************************************************************************)
(* notify_transfer_status (file_transfer.rs 297-326), awaited by           *)
(* reject_transfer and cancel_transfer after they have left the lock of    *)
(* the map: the clone of the record they took under the lock is written as *)
(* JSON on a control connection to the other party, and the command        *)
(* returns.  ok = the dial and the write succeed.  On Ok the command       *)
(* reject_file_transfer or cancel_file_transfer emits                      *)
(* file_transfers_update with the records of the map (lib.rs 355-360,      *)
(* 384-389).                                                               *)
(***************************************************************************)
notify_transfer_status(n, ok) ==
    /\ UNCHANGED <<cmvars, discvars, nonevents>>
    /\ UNCHANGED commands
    /\ fcall[n].pc = "notify"
    /\ ok => Cardinality(ctrl) < MaxCtrl
    /\ LET transfer == fcall[n].transfer
           recipient_ip == IF transfer.sender_id = local_user[n].id
                           THEN transfer.recipient_ip
                           ELSE transfer.sender_ip
       IN ctrl' = IF ok
                  THEN ctrl \cup {[to |-> NodeAt(recipient_ip), json |-> ToJson(transfer)]}
                  ELSE ctrl
    /\ Returned(n, IF ok THEN "Ok" ELSE "NetworkError",
                "file_transfers_update", get_all_transfers(transfers, n))
    /\ UNCHANGED <<transfers, nextId, streams>>

\* The data-connection slots not in use.
FreeSlots == (1..MaxStreams) \ {s.slot : s \in streams}

(***************************************************************************)
(* start_file_transfer (file_transfer.rs 329-358): spawns the streaming    *)
(* task with a clone of the record; the side is chosen by sender_id.       *)
(***************************************************************************)
start_file_transfer(n, transfer) ==
    /\ streams' = streams \cup
        {[slot |-> CHOOSE k \in FreeSlots : \A j \in FreeSlots : k <= j,
          tid |-> transfer.id,
          mode |-> IF transfer.sender_id = local_user[n].id
                   THEN "FILE_DATA" ELSE "REQUEST_FILE",
          client |-> n,
          server |-> NodeAt(IF transfer.sender_id = local_user[n].id
                            THEN transfer.recipient_ip ELSE transfer.sender_ip),
          source_path |-> transfer.source_path,
          destination_path |-> transfer.destination_path,
          cpc |-> "start", spc |-> "none",
          fileLeft |-> 0, bytes_read |-> 0, written |-> 0, bytes_sent |-> 0,
          inflight |-> 0, bytes_received |-> 0]}

(***************************************************************************)
(* accept_transfer (file_transfer.rs 233-252): the status and the          *)
(* destination are set under the lock of the map, the lock is left and     *)
(* start_file_transfer spawns the streaming task, which runs from then on  *)
(* beside the command.                                                     *)
(***************************************************************************)
accept_transfer(n, transfer_id) ==
    /\ UNCHANGED <<cmvars, discvars, nonevents>>
    /\ commands < MaxCommands /\ commands' = commands + 1
    /\ fcall[n].pc = "idle"
    /\ Len(events[local_user[n].id]) < MaxEvents
    /\ FreeSlots # {}
    /\ IF ~Has(n, transfer_id)
       THEN \* Err(TransferNotFound)
            /\ Returned(n, "TransferNotFound", "file_transfers_update", {})
            /\ UNCHANGED <<transfers, streams>>
       ELSE /\ transfers' = [transfers EXCEPT ![n][transfer_id] =
                                [@ EXCEPT !.status = "InProgress",
                                          !.destination_path = "dst"]]
            /\ start_file_transfer(n, transfers'[n][transfer_id])
            /\ fcall' = Awaiting(n, "accepted", NoTransfer)
            /\ UNCHANGED events
    /\ UNCHANGED <<nextId, ctrl>>

(***************************************************************************)
(* The Ok arm of the command accept_file_transfer (lib.rs 338-343), after  *)
(* accept_transfer has returned: the map is locked and read again by       *)
(* get_all_transfers, and file_transfers_update is emitted with the        *)
(* records as they are by then.                                            *)
(***************************************************************************)
accept_file_transfer(n) ==
    /\ UNCHANGED <<cmvars, discvars, nonevents>>
    /\ fcall[n].pc = "accepted"
    /\ Returned(n, "Ok", "file_transfers_update", get_all_transfers(transfers, n))
    /\ UNCHANGED <<transfers, nextId, ctrl, streams, commands>>

(***************************************************************************)
(* reject_transfer up to the await (file_transfer.rs 255-268).             *)
(***************************************************************************)
reject_transfer(n, transfer_id) ==
    /\ UNCHANGED <<cmvars, discvars, nonevents>>
    /\ commands < MaxCommands /\ commands' = commands + 1
    /\ fcall[n].pc = "idle"
    /\ Len(events[local_user[n].id]) < MaxEvents
    /\ IF ~Has(n, transfer_id)
       THEN \* Err(TransferNotFound)
            /\ Returned(n, "TransferNotFound", "file_transfers_update", {})
            /\ UNCHANGED transfers
       ELSE /\ transfers' = [transfers EXCEPT ![n][transfer_id].status = "Rejected"]
            /\ fcall' = Awaiting(n, "notify", transfers'[n][transfer_id])
            /\ UNCHANGED events
    /\ UNCHANGED <<nextId, ctrl, streams>>

(***************************************************************************)
(* cancel_transfer up to the await (file_transfer.rs 276-289).             *)
(***************************************************************************)
cancel_transfer(n, transfer_id) ==
    /\ UNCHANGED <<cmvars, discvars, nonevents>>
    /\ commands < MaxCommands /\ commands' = commands + 1
    /\ fcall[n].pc = "idle"
    /\ Len(events[local_user[n].id]) < MaxEvents
    /\ IF ~Has(n, transfer_id)
       THEN \* Err(TransferNotFound)
            /\ Returned(n, "TransferNotFound", "file_transfers_update", {})
            /\ UNCHANGED transfers
       ELSE /\ transfers' = [transfers EXCEPT ![n][transfer_id].status = "Cancelled"]
            /\ fcall' = Awaiting(n, "notify", transfers'[n][transfer_id])
            /\ UNCHANGED events
    /\ UNCHANGED <<nextId, ctrl, streams>>

(***************************************************************************)
(* handle_file_connection, JSON branch (file_transfer.rs 656-682): the     *)
(* listener of m.to parses the record and stores it if it is addressed to  *)
(* the local user.                                                         *)
(***************************************************************************)
handle_json(m) ==
    /\ UNCHANGED <<cmvars, discvars, chatvars>>
    /\ UNCHANGED <<commands, fcall>>
    /\ m \in ctrl
    /\ ctrl' = ctrl \ {m}
    /\ LET transfer == FromJson(m.json)
       IN transfers' = IF transfer.recipient_id = local_user[m.to].id
                       THEN Insert(m.to, transfer)
                       ELSE transfers
    /\ UNCHANGED <<nextId, streams>>

(***************************************************************************)
(* The streaming tasks.  A data connection s has a client end (the task    *)
(* start_file_transfer spawned) and a server end (the connection task of   *)
(* the listener of the other node).                                        *)
(***************************************************************************)
\* A connection whose two tasks have ended is gone.
Ended(s) == s.cpc = "done" /\ s.spc \in {"none", "done"}
Put(s, t) == (streams \ {s}) \cup (IF Ended(t) THEN {} ELSE {t})

\* The progress update of the four streaming loops (file_transfer.rs 437-447,
\* 515-525, 590-598, 643-651): under the lock, if the record is still there.
UpdateProgress(n, id, bytes) ==
    IF Has(n, id)
    THEN LET transfer == transfers[n][id]
         IN [transfers EXCEPT ![n][id] =
                [transfer EXCEPT !.bytes_transferred = bytes,
                                 !.status = IF bytes >= transfer.file_size
                                            THEN "Completed" ELSE transfer.status]]
    ELSE transfers

\* The sizes one read of the socket can return with `avail` bytes buffered:
\* at most the buffer of CHUNK_SIZE bytes, in multiples of Segment bytes.
ReadSizes(avail) ==
    {Min(k * Segment, Min(avail, CHUNK_SIZE)) : k \in 1..((CHUNK_SIZE \div Segment) + 1)}

(***************************************************************************)
(* The error path of the spawned task (file_transfer.rs 345-354).          *)
(***************************************************************************)
task_failed(s) ==
    /\ transfers' = IF Has(s.client, s.tid)
                    THEN [transfers EXCEPT ![s.client][s.tid] =
                            [@ EXCEPT !.status = "Failed", !.error = "io"]]
                    ELSE transfers
    /\ streams' = Put(s, [s EXCEPT !.cpc = "done"])

(***************************************************************************)
(* send_file_data / receive_file_data up to the header                     *)
(* (file_transfer.rs 378-413, 455-490).  len = the length of the file at   *)
(* the source path when File::open opens it, or NoFile.                    *)
(***************************************************************************)
client_start(s, len) ==
    /\ UNCHANGED <<cmvars, discvars, chatvars>>
    /\ UNCHANGED <<commands, fcall>>
    /\ s \in streams /\ s.cpc = "start"
    /\ IF s.mode = "FILE_DATA"
       THEN IF s.source_path = "None" \/ len = NoFile
            THEN task_failed(s)
            ELSE /\ streams' = Put(s, [s EXCEPT !.cpc = "loop", !.spc = "lookup",
                                                !.fileLeft = len])
                 /\ UNCHANGED transfers
       ELSE IF s.destination_path = "None"
            THEN task_failed(s)
            ELSE /\ streams' = Put(s, [s EXCEPT !.cpc = "loop", !.spc = "lookup"])
                 /\ UNCHANGED transfers
    /\ UNCHANGED <<nextId, ctrl>>

\* An I/O error in the spawned task: File::create, connect, write or read fails.
client_io_error(s) ==
    /\ UNCHANGED <<cmvars, discvars, chatvars>>
    /\ UNCHANGED <<commands, fcall>>
    /\ s \in streams /\ s.cpc \in {"start", "loop", "write"}
    /\ task_failed(s)
    /\ UNCHANGED <<nextId, ctrl>>

(***************************************************************************)
(* handle_file_connection up to the loop (file_transfer.rs 541-573,        *)
(* 603-627): read the command line, look the transfer up, open the file.   *)
(* len = the length of the file at the source path when File::open opens   *)
(* it, or NoFile.                                                          *)
(***************************************************************************)
server_lookup(s, len) ==
    /\ UNCHANGED <<cmvars, discvars, chatvars>>
    /\ UNCHANGED <<commands, fcall>>
    /\ s \in streams /\ s.spc = "lookup"
    /\ LET n == s.server
           found == Has(n, s.tid)
           transfer == transfers[n][s.tid]
           mine == IF s.mode = "FILE_DATA"
                   THEN transfer.recipient_id = local_user[n].id
                   ELSE transfer.sender_id = local_user[n].id
           bad == IF s.mode = "FILE_DATA"
                  THEN transfer.destination_path = "None"
                  ELSE transfer.source_path = "None" \/ len = NoFile
       IN IF ~found
          THEN \* Err(TransferNotFound)
               /\ streams' = Put(s, [s EXCEPT !.spc = "done"])
          ELSE IF ~mine
          THEN \* Ok(()) without streaming
               /\ streams' = Put(s, [s EXCEPT !.spc = "done"])
          ELSE IF bad
          THEN \* Err(FileTransferError) or Err(IoError)
               /\ streams' = Put(s, [s EXCEPT !.spc = "done"])
          ELSE /\ streams' = Put(s, [s EXCEPT !.spc = "loop",
                                        !.fileLeft = IF s.mode = "FILE_DATA"
                                                     THEN @ ELSE len])
    /\ UNCHANGED <<transfers, nextId, ctrl>>

\* An I/O error in the connection task: its Err is logged (file_transfer.rs 91-103).
server_io_error(s) ==
    /\ UNCHANGED <<cmvars, discvars, chatvars>>
    /\ UNCHANGED <<commands, fcall>>
    /\ s \in streams /\ s.spc \in {"lookup", "loop", "write"}
    /\ streams' = Put(s, [s EXCEPT !.spc = "done"])
    /\ UNCHANGED <<transfers, nextId, ctrl>>

\* The bytes one poll of write_all can hand to the socket with `left` bytes
\* of the chunk unwritten: what the send buffer has room for, in multiples
\* of Segment bytes.
WriteSizes(left) ==
    {Min(k * Segment, left) : k \in 1..((CHUNK_SIZE \div Segment) + 1)}

\* write_all of a chunk goes on by `size` bytes: they are on the stream; once
\* the chunk is written whole write_all returns and bytes_sent is counted.
ChunkWritten(s, size) ==
    IF s.written + size = s.bytes_read
    THEN [s EXCEPT !.inflight = @ + size, !.written = 0, !.bytes_read = 0,
                   !.bytes_sent = @ + s.bytes_read]
    ELSE [s EXCEPT !.inflight = @ + size, !.written = @ + size]

(***************************************************************************)
(* One iteration of the loop of send_file_data (file_transfer.rs 419-452), *)
(* up to the await of write_all: the chunk is read from the file.          *)
(***************************************************************************)
send_file_data(s) ==
    /\ UNCHANGED <<cmvars, discvars, chatvars>>
    /\ UNCHANGED <<commands, fcall>>
    /\ s \in streams /\ s.mode = "FILE_DATA" /\ s.cpc = "loop"
    /\ LET bytes_read == Min(CHUNK_SIZE, s.fileLeft)
       IN IF bytes_read = 0
          THEN streams' = Put(s, [s EXCEPT !.cpc = "done"])
          ELSE streams' = Put(s, [s EXCEPT !.fileLeft = @ - bytes_read,
                                           !.bytes_read = bytes_read,
                                           !.written = 0,
                                           !.cpc = "write"])
    /\ UNCHANGED <<transfers, nextId, ctrl>>

\* stream.write_all(&buffer[..bytes_read]).await (430-433): the socket takes
\* a part of what is left of the chunk; the task is suspended until it takes
\* more, and write_all returns when the chunk is written whole.
send_file_data_write_all(s) ==
    /\ UNCHANGED <<cmvars, discvars, chatvars>>
    /\ UNCHANGED <<commands, fcall>>
    /\ s \in streams /\ s.mode = "FILE_DATA" /\ s.cpc = "write"
    /\ \E size \in WriteSizes(s.bytes_read - s.written) :
          LET t == ChunkWritten(s, size)
          IN streams' = Put(s, [t EXCEPT !.cpc = IF t.bytes_read = 0 THEN "update"
                                                 ELSE "write"])
    /\ UNCHANGED <<transfers, nextId, ctrl>>

\* The rest of the iteration (435-447): with the lock of the map, the
\* progress of the record is updated.
send_file_data_update(s) ==
    /\ UNCHANGED <<cmvars, discvars, chatvars>>
    /\ UNCHANGED <<commands, fcall>>
    /\ s \in streams /\ s.mode = "FILE_DATA" /\ s.cpc = "update"
    /\ streams' = Put(s, [s EXCEPT !.cpc = "loop"])
    /\ transfers' = UpdateProgress(s.client, s.tid, s.bytes_sent)
    /\ UNCHANGED <<nextId, ctrl>>

(***************************************************************************)
(* One iteration of the loop of receive_file_data (492-530).               *)
(***************************************************************************)
receive_file_data(s) ==
    /\ UNCHANGED <<cmvars, discvars, chatvars>>
    /\ UNCHANGED <<commands, fcall>>
    /\ s \in streams /\ s.mode = "REQUEST_FILE" /\ s.cpc = "loop"
    /\ IF s.inflight = 0
       THEN \* read returns 0 once the other end has closed
            /\ s.spc = "done"
            /\ streams' = Put(s, [s EXCEPT !.cpc = "done"])
            /\ UNCHANGED transfers
       ELSE \E bytes_read \in ReadSizes(s.inflight) :
            LET bytes_received == s.bytes_received + bytes_read
            IN /\ streams' = Put(s, [s EXCEPT !.inflight = @ - bytes_read,
                                              !.bytes_received = bytes_received])
               /\ transfers' = UpdateProgress(s.client, s.tid, bytes_received)
    /\ UNCHANGED <<nextId, ctrl>>

(***************************************************************************)
(* One iteration of the loop of the FILE_DATA branch of                    *)
(* handle_file_connection (575-602).                                       *)
(***************************************************************************)
handle_file_data(s) ==
    /\ UNCHANGED <<cmvars, discvars, chatvars>>
    /\ UNCHANGED <<commands, fcall>>
    /\ s \in streams /\ s.mode = "FILE_DATA" /\ s.spc = "loop"
    /\ IF s.inflight = 0
       THEN /\ s.cpc = "done"
            /\ streams' = Put(s, [s EXCEPT !.spc = "done"])
            /\ UNCHANGED transfers
       ELSE \E bytes_read \in ReadSizes(s.inflight) :
            LET bytes_received == s.bytes_received + bytes_read
            IN /\ streams' = Put(s, [s EXCEPT !.inflight = @ - bytes_read,
                                              !.bytes_received = bytes_received])
               /\ transfers' = UpdateProgress(s.server, s.tid, bytes_received)
    /\ UNCHANGED <<nextId, ctrl>>

(***************************************************************************)
(* One iteration of the loop of the REQUEST_FILE branch of                 *)
(* handle_file_connection (629-655), up to the await of write_all: the     *)
(* chunk is read from the file.                                            *)
(***************************************************************************)
handle_request_file(s) ==
    /\ UNCHANGED <<cmvars, discvars, chatvars>>
    /\ UNCHANGED <<commands, fcall>>
    /\ s \in streams /\ s.mode = "REQUEST_FILE" /\ s.spc = "loop"
    /\ LET bytes_read == Min(CHUNK_SIZE, s.fileLeft)
       IN IF bytes_read = 0
          THEN streams' = Put(s, [s EXCEPT !.spc = "done"])
          ELSE streams' = Put(s, [s EXCEPT !.fileLeft = @ - bytes_read,
                                           !.bytes_read = bytes_read,
                                           !.written = 0,
                                           !.spc = "write"])
    /\ UNCHANGED <<transfers, nextId, ctrl>>

\* stream.write_all(&buffer[..bytes_read]).await (636-638): the socket takes
\* a part of what is left of the chunk; the task is suspended until it takes
\* more, and write_all returns when the chunk is written whole.
handle_request_file_write_all(s) ==
    /\ UNCHANGED <<cmvars, discvars, chatvars>>
    /\ UNCHANGED <<commands, fcall>>
    /\ s \in streams /\ s.mode = "REQUEST_FILE" /\ s.spc = "write"
    /\ \E size \in WriteSizes(s.bytes_read - s.written) :
          LET t == ChunkWritten(s, size)
          IN streams' = Put(s, [t EXCEPT !.spc = IF t.bytes_read = 0 THEN "update"
                                                 ELSE "write"])
    /\ UNCHANGED <<transfers, nextId, ctrl>>

\* The rest of the iteration (640-651): with the lock of the map, the
\* progress of the record is updated.
handle_request_file_update(s) ==
    /\ UNCHANGED <<cmvars, discvars, chatvars>>
    /\ UNCHANGED <<commands, fcall>>
    /\ s \in streams /\ s.mode = "REQUEST_FILE" /\ s.spc = "update"
    /\ streams' = Put(s, [s EXCEPT !.spc = "loop"])
    /\ transfers' = UpdateProgress(s.server, s.tid, s.bytes_sent)
    /\ UNCHANGED <<nextId, ctrl>>

(***************************************************************************)
(* The connection manager (connection_manager.rs) of one node, its peers   *)
(* and its two tasks: the command send_message of the user interface and   *)
(* the heartbeat task.                                                     *)
(***************************************************************************)
\* The peer-ids the discovery service has found.
PeerIds == {"user-87654321", "user-0badcafe"}
\* The callers of send_message: the command of lib.rs holds the lock of
\* AppState for the whole call, so one call runs at a time.
Callers == {"ui"}
\* The tasks that can call the connection manager through a reference to
\* it: the command, and a second task that calls it at the same time.
Clients == {"ui", "other"}
ConnIds == 1..MaxConns
\* connections.get(peer_id) is None.
NoConn == 0

\* PeerConnection::is_idle
is_idle(connection) == connection.idle_for > CONNECTION_IDLE_TIMEOUT

\* A reuse test that leaves out connection.is_active().
ReusableThoughInactive(map, cs, peer_id) ==
    /\ map[peer_id] # NoConn
    /\ ~(cs[map[peer_id]].idle_for > CONNECTION_IDLE_TIMEOUT)

\* A remove_connection that leaves the entry in the map.
remove_connection_skipped(map, peer_id) == map

\* The reuse test of get_or_create_connection.
Reusable(map, cs, peer_id) ==
    /\ map[peer_id] # NoConn
    /\ cs[map[peer_id]].is_active
    /\ ~is_idle(cs[map[peer_id]])

\* PeerConnection::new
NewConnection(peer_id) == [peer_id |-> peer_id, idle_for |-> 0, is_active |-> TRUE]
\* PeerConnection::update_activity
update_activity(cs, k) == [cs EXCEPT ![k].idle_for = 0]
\* PeerConnection::set_inactive
set_inactive(cs, k) == [cs EXCEPT ![k].is_active = FALSE]
\* ConnectionManager::remove_connection, with the lock of the map held
remove_connection(map, peer_id) == [map EXCEPT ![peer_id] = NoConn]

\* The PeerConnection objects some Arc still refers to: the ones of the map
\* and the one of each caller (kept after the call as the connection the
\* call used).
Live(map, calls) ==
    ({map[p] : p \in PeerIds} \cup {calls[c].connection : c \in Clients}) \ {NoConn}
\* Dropping the objects nothing refers to.
Drop(cs, map, calls) ==
    [k \in (DOMAIN cs) \cap Live(map, calls) |-> cs[k]]

CMInit ==
    /\ connections = [p \in PeerIds |-> NoConn]
    /\ conns = <<>>
    /\ nextConn = 1
    /\ map_lock = "none"
    /\ stream_lock = [k \in ConnIds |-> "none"]
    /\ call = [c \in Clients |->
                 [pc |-> "idle", peer_id |-> "None", connection |-> NoConn, result |-> "None"]]
    /\ hb = [pc |-> "off", todo |-> {}, connections_to_remove |-> {}, peer_id |-> "None",
             rx |-> 0]
    /\ untilTick = 0

(***************************************************************************)
(* The network discovery (discovery.rs) of one node: the commands          *)
(* start_discovery and stop_discovery, the event-processor tasks they      *)
(* spawn and stop, and the mDNS daemons that advertise the node.           *)
(***************************************************************************)
\* The id of the local user of the node.
LocalId == local_user["alpha"].id
\* The ids of the users whose advertisements the network resolves: the peers
\* and the node itself.
UserIds == PeerIds \cup {LocalId}
\* The ServiceDaemons start_discovery creates, one per call that gets so far.
DaemonIds == 1..MaxDaemons
\* self.daemon and self.stop_tx are None.
NoDaemon == 0
\* The step at which a call of start_discovery fails, or "ok".
StartOutcomes == {"daemon", "register", "browse", "ok"}

\* A test that lets every user into the directory.
IsAnyone(id) == TRUE
\* The test of the ServiceResolved handler: user.id != local_id.
IsPeer(id) == id # LocalId

\* A test of the running flag that never finds it set.
NeverRunning == FALSE
\* The test of start_discovery: *is_running.
AlreadyRunning == is_running

\* peers_map.insert(user.id, user) with user.last_seen = now.
InsertPeer(dir, id) ==
    [u \in (DOMAIN dir) \cup {id} |-> IF u = id THEN 0 ELSE dir[u]]
\* peers_map.retain(..), kept being the keys whose record passes the test.
Retain(dir, kept) ==
    [u \in (DOMAIN dir) \cap kept |-> dir[u]]

\* The names a user goes by: the host name of the node (lib.rs run()) and a
\* name the user types.
Names == {"alpha-host", "Ada"}
\* NetworkDiscovery.local_user.name: the field of the clone of the local user
\* NetworkDiscovery::new has been given.
discovery_user_name == "alpha-host"

\* The ids of the users that advertise: the peers, the local user and a user
\* whose id is the shorter text format!("user-{:x}", ..) gives a small hash.
DirectoryIds == {LocalId, "user-87654321", "user-8765"}

\* A string of the program, character by character.
Text(id) ==
    CASE id = "user-12345678" -> <<"u", "s", "e", "r", "-", "1", "2", "3", "4", "5", "6", "7", "8">>
      [] id = "user-87654321" -> <<"u", "s", "e", "r", "-", "8", "7", "6", "5", "4", "3", "2", "1">>
      [] id = "user-0badcafe" -> <<"u", "s", "e", "r", "-", "0", "b", "a", "d", "c", "a", "f", "e">>
      [] id = "user-8765" -> <<"u", "s", "e", "r", "-", "8", "7", "6", "5">>
\* format!("ip-chat-{}", local_user.id) followed by "." and SERVICE_TYPE:
\* the full name of the instance a user registers.
FullName(id) ==
    <<"i", "p", "-", "c", "h", "a", "t", "-">> \o Text(id) \o <<".", "_", "i", "p", "-", "c", "h", "a", "t", ".", "_", "t", "c", "p", ".", "l", "o", "c", "a", "l", ".">>
\* A full name no user of the directory has registered.
OtherName == <<"p", "r", "i", "n", "t", "e", "r", ".", "_", "i", "p", "p", ".", "_", "t", "c", "p", ".", "l", "o", "c", "a", "l", ".">>
\* A test that finds the id in a name only when the name is the instance
\* name of that id.
IsInstanceOf(name, id) == name = FullName(id)
\* name.contains(&user.id)
Contains(name, id) ==
    \E i \in 0..(Len(name) - Len(Text(id))) :
        SubSeq(name, i + 1, i + Len(Text(id))) = Text(id)

\* What the mDNS response of a resolved instance carries: the user of the
\* TXT record "user" and the addresses of the instance.
Infos ==
    {[user |-> [id |-> id, ip |-> "192.168.1.11"], addresses |-> a] :
        id \in DirectoryIds, a \in {{}, {"192.168.1.12"}, {"192.168.1.11", "192.168.1.12"}}}
\* The response of the instance of user id as that user registers it.
Advertisement(id) ==
    [user |-> [id |-> id, ip |-> "192.168.1.11"], addresses |-> {"192.168.1.11"}]
\* An address taken from the TXT record whatever the response carries.
TxtAddress(info) == {info.user.ip}
\* info.get_addresses().iter().next().map(..).unwrap_or(user.ip): the
\* values the expression can have, the addresses being a set.
FirstAddress(info) ==
    IF info.addresses = {} THEN {info.user.ip} ELSE info.addresses
\* The TXT records after a change of the daemons that advertise: a daemon
\* that registers now advertises name.
Registered(records, daemons, name) ==
    [d \in daemons |-> IF d \in DOMAIN records THEN records[d] ELSE name]

DiscoveryInit ==
    /\ peers = <<>>
    /\ is_running = FALSE
    /\ service_registered = FALSE
    /\ daemon = NoDaemon
    /\ stop_tx = NoDaemon
    /\ advertising = {}
    /\ tasks = <<>>
    /\ nextDaemon = 1
    /\ dcall = [op |-> "None", pc |-> "idle", result |-> "None"]
    /\ last_resolved = "None"
    /\ addresses = <<>>
    /\ emitted = <<>>
    /\ username = "alpha-host"
    /\ txt = <<>>
    /\ receiver = {}

\* The state after construction: no transfer, no connection, no task running.
(***************************************************************************)
(* The messaging of one node: the command send_message of lib.rs, the      *)
(* message store of chat.rs, the envelopes the connection manager writes   *)
(* on its streams, and the read loop (handle_incoming_connection) that the *)
(* chat service of the listening node runs on every stream it accepts.     *)
(***************************************************************************)
\* The ids Uuid::new_v4() hands out to the messages of the node.
Uuid(i) == <<"uuid-1", "uuid-2", "uuid-3", "uuid-4">>[i]
\* The contents the user sends.
Contents == {"hello"}
\* The peers the user writes to.
Recipients == {"user-87654321"}
\* No message: the command has not built one.
NoMessage == [id |-> "None", sender_id |-> "None", recipient_id |-> "None",
              content |-> "None", timestamp |-> 0, read |-> FALSE]
\* models::Message built by the command send_message.
NewMessage(id, peer_id, content, timestamp) ==
    [id |-> id, sender_id |-> LocalId, recipient_id |-> peer_id,
     content |-> content, timestamp |-> timestamp, read |-> FALSE]

\* The stream a remote peer has opened to the chat service of the node; the
\* streams 1..MaxConns are the ones the node has dialled.
InboundStream == MaxConns + 1
\* The stream ChatManager::send_message_to_peer opens to the chat service of
\* a peer.
DirectStream == MaxConns + 2
StreamIds == 1..DirectStream
\* The messages a remote peer writes on the inbound stream of the node: to
\* the local user, or to somebody else.
RemoteMessages ==
    {[id |-> "uuid-r", sender_id |-> "user-87654321", recipient_id |-> r,
      content |-> "hello", timestamp |-> 0, read |-> FALSE] :
        r \in {LocalId, "user-0badcafe"}}

\* The tokens of a JSON text: the braces of the object and its strings.
Open == <<"{", "">>
Close == <<"}", "">>
Str(v) == <<"s", v>>

\* The readings of the clock.
Times == 0..MaxNow
\* DateTime<Utc> as its RFC 3339 text, and the time a text stands for.
Rfc3339(t) == <<"T00:00:00Z", "T00:00:01Z", "T00:00:02Z", "T00:00:03Z">>[t + 1]
IsTime(text) == \E t \in Times : Rfc3339(t) = text
ParseTime(text) == CHOOSE t \in Times : Rfc3339(t) = text

\* #[derive(Serialize)] of Message: the values of its fields in order.
MessageData(message) ==
    <<message.id, message.sender_id, message.recipient_id, message.content,
      Rfc3339(message.timestamp), IF message.read THEN "true" ELSE "false">>

\* serde_json::to_string(message): the text of the object of the message,
\* which has no member "type" (get("type") gives None).
message_json(message) ==
    <<Open, Str("None")>> \o [i \in 1..6 |-> Str(MessageData(message)[i])] \o <<Close>>

\* json!({"type": .., "data": ..}).to_string(): the text of an envelope.
to_string(type, data) ==
    <<Open, Str(type)>> \o [i \in 1..Len(data) |-> Str(data[i])] \o <<Close>>

\* serde_json::from_slice::<Value>(&buffer): the buffer is parsed as one
\* JSON value; anything before, after or missing is an error.
from_slice(buffer) ==
    IF /\ Len(buffer) >= 3
       /\ buffer[1] = Open
       /\ buffer[Len(buffer)] = Close
       /\ \A i \in 2..(Len(buffer) - 1) : buffer[i][1] = "s"
    THEN [ok |-> TRUE, type |-> buffer[2][2],
          data |-> [i \in 1..(Len(buffer) - 3) |-> buffer[i + 2][2]]]
    ELSE [ok |-> FALSE, type |-> "None", data |-> <<>>]

\* A deserializer that takes the content for the id and the id for the
\* content.
from_value_crossed(data) ==
    IF Len(data) = 6 /\ IsTime(data[5]) /\ data[6] \in {"true", "false"}
    THEN [ok |-> TRUE,
          message |-> [id |-> data[4], sender_id |-> data[2], recipient_id |-> data[3],
                       content |-> data[1], timestamp |-> ParseTime(data[5]),
                       read |-> (data[6] = "true")]]
    ELSE [ok |-> FALSE, message |-> NoMessage]
\* serde_json::from_value::<Message>(message_data)
from_value(data) ==
    IF Len(data) = 6 /\ IsTime(data[5]) /\ data[6] \in {"true", "false"}
    THEN [ok |-> TRUE,
          message |-> [id |-> data[1], sender_id |-> data[2], recipient_id |-> data[3],
                       content |-> data[4], timestamp |-> ParseTime(data[5]),
                       read |-> (data[6] = "true")]]
    ELSE [ok |-> FALSE, message |-> NoMessage]

\* The lengths at which a failed write is cut: before its first byte, or
\* within the text.
Torn == {0, 3}
\* The lengths of a read of the bytes that have arrived: all of them, up to
\* the end of an envelope, or up to a point within one.
ReadLengths(bytes) ==
    {n \in 1..Len(bytes) : n = Len(bytes) \/ bytes[n] = Close \/ n \in Torn}
\* let mut buffer = vec![0; 4096]
BufferSize == 4096

\* ConnectionManager::handle_received_message on the node of user u: the
\* events of the nodes after it.
handle_received_message(evs, u, message) ==
    IF message.recipient_id # u
    THEN evs
    ELSE emit_event(evs, u, "message_received", message)

\* A store that forgets the message.
store_sent_message_skipped(store, message) == store
\* ChatManager::store_sent_message: push on the bucket of the local user.
store_sent_message(store, message) ==
    [store EXCEPT ![LocalId] = Append(@, message)]

\* NetworkDiscovery::get_peer_by_id: the record of the peer, or None.
get_peer_by_id(dir, peer_id) == IF peer_id \in DOMAIN dir THEN peer_id ELSE "None"
\* A match that takes the arm of Some whatever the lookup gave.
FoundAnyway(peer) == TRUE
\* peer.is_some(), and the arm Some(ref peer_info) of match peer.
Found(peer) == peer # "None"

ChatInit ==
    /\ cmd = [pc |-> "idle", peer_id |-> "None", content |-> "None", message |-> NoMessage,
              refreshes |-> 0, lookups |-> 0, result |-> "None"]
    /\ nextMsg = 1
    /\ messages = [u \in UserIds |-> <<>>]
    /\ events = [u \in UserIds |-> <<>>]
    /\ wire = [k \in StreamIds |->
                 [to |-> IF k = InboundStream THEN LocalId ELSE "None",
                  bytes |-> <<>>, written |-> 0, responses |-> 0]]
    /\ now = 0
    /\ marked = [peer_id |-> "None", result |-> "None"]
    /\ reading = [k \in StreamIds |-> TRUE]
    /\ responding = [k \in StreamIds |-> FALSE]

Init == FTInit /\ CMInit /\ DiscoveryInit /\ ChatInit

\* ConnectionManager::start_heartbeat_service, called once at start-up by
\* ensure_services_initialized; the first tick of the interval is immediate.
start_heartbeat_service ==
    /\ UNCHANGED <<ftvars, discvars>>
    /\ hb.pc = "off"
    /\ hb' = [hb EXCEPT !.pc = "wait"]
    /\ untilTick' = 0
    /\ UNCHANGED <<connections, conns, nextConn, map_lock, stream_lock, call>>

\* The command send_message of lib.rs calls ConnectionManager::send_message,
\* which begins with get_or_create_connection.
send_message(c, peer_id) ==
    /\ UNCHANGED <<ftvars, discvars>>
    /\ hb.pc # "off"
    /\ call[c].pc = "idle"
    /\ call' = [call EXCEPT ![c] =
                  [pc |-> "check", peer_id |-> peer_id, connection |-> NoConn, result |-> "None"]]
    /\ conns' = Drop(conns, connections, call')
    /\ UNCHANGED <<connections, nextConn, map_lock, stream_lock, hb, untilTick>>

\* get_or_create_connection, first block: with the lock of the map, return
\* the cached connection if it is active and not idle.
get_or_create_check(c) ==
    /\ UNCHANGED <<ftvars, discvars>>
    /\ call[c].pc = "check"
    /\ map_lock = "none"
    /\ IF Reusable(connections, conns, call[c].peer_id)
         THEN call' = [call EXCEPT ![c].pc = "lock",
                                   ![c].connection = connections[call[c].peer_id]]
         ELSE call' = [call EXCEPT ![c].pc = "dial"]
    /\ UNCHANGED <<connections, conns, nextConn, map_lock, stream_lock, hb, untilTick>>

\* get_or_create_connection: timeout(CONNECTION_TIMEOUT, TcpStream::connect).
\* ok is the outcome of the dial.
get_or_create_dial(c, ok) ==
    /\ UNCHANGED <<ftvars, discvars>>
    /\ call[c].pc = "dial"
    /\ ok => nextConn <= MaxConns
    /\ IF ok
         THEN /\ conns' = [k \in (DOMAIN conns) \cup {nextConn} |->
                             IF k = nextConn THEN NewConnection(call[c].peer_id)
                                             ELSE conns[k]]
              /\ nextConn' = nextConn + 1
              /\ call' = [call EXCEPT ![c].pc = "insert", ![c].connection = nextConn]
         ELSE /\ call' = [call EXCEPT ![c].pc = "idle",
                                      ![c].result = "NetworkError: Connection failed"]
              /\ UNCHANGED <<conns, nextConn>>
    /\ UNCHANGED <<connections, map_lock, stream_lock, hb, untilTick>>

\* get_or_create_connection, last block: with the lock of the map, store the
\* new connection.
get_or_create_insert(c) ==
    /\ UNCHANGED <<ftvars, discvars>>
    /\ call[c].pc = "insert"
    /\ map_lock = "none"
    /\ connections' = [connections EXCEPT ![call[c].peer_id] = call[c].connection]
    /\ call' = [call EXCEPT ![c].pc = "lock"]
    /\ conns' = Drop(conns, connections', call')
    /\ UNCHANGED <<nextConn, map_lock, stream_lock, hb, untilTick>>

\* send_message: connection.stream.lock().await
send_lock(c) ==
    /\ UNCHANGED <<ftvars, discvars>>
    /\ call[c].pc = "lock"
    /\ stream_lock[call[c].connection] = "none"
    /\ stream_lock' = [stream_lock EXCEPT ![call[c].connection] = c]
    /\ call' = [call EXCEPT ![c].pc = "write"]
    /\ UNCHANGED <<connections, conns, nextConn, map_lock, hb, untilTick>>

\* send_message: timeout(10 s, write_all and flush).  ok is the outcome.  A
\* failure marks the connection inactive and goes on to remove_connection,
\* the guard of the stream still held.
send_write(c, ok) ==
    /\ UNCHANGED <<ftvars, discvars>>
    /\ call[c].pc = "write"
    /\ IF ok
         THEN /\ conns' = update_activity(conns, call[c].connection)
              /\ stream_lock' = [stream_lock EXCEPT ![call[c].connection] = "none"]
              /\ call' = [call EXCEPT ![c].pc = "idle", ![c].result = "Ok"]
         ELSE /\ conns' = set_inactive(conns, call[c].connection)
              /\ call' = [call EXCEPT ![c].pc = "remove"]
              /\ UNCHANGED stream_lock
    /\ UNCHANGED <<connections, nextConn, map_lock, hb, untilTick>>

\* send_message, failure arms: self.remove_connection(peer_id).await, then
\* the guard of the stream is dropped and the error returned.
send_remove(c) ==
    /\ UNCHANGED <<ftvars, discvars>>
    /\ call[c].pc = "remove"
    /\ map_lock = "none"
    /\ connections' = remove_connection(connections, call[c].peer_id)
    /\ stream_lock' = [stream_lock EXCEPT ![call[c].connection] = "none"]
    /\ call' = [call EXCEPT ![c].pc = "idle",
                            ![c].result = "NetworkError: Message send failed"]
    /\ conns' = Drop(conns, connections', call')
    /\ UNCHANGED <<nextConn, map_lock, hb, untilTick>>

\* perform_heartbeat_check has the lock of the map for its first block.
Sweeping == [hb EXCEPT !.pc = "check",
                       !.todo = {p \in PeerIds : connections[p] # NoConn},
                       !.connections_to_remove = {},
                       !.peer_id = "None"]

\* The heartbeat task: the select takes heartbeat_interval.tick() and calls
\* perform_heartbeat_check.
heartbeat_tick ==
    /\ UNCHANGED <<ftvars, discvars>>
    /\ hb.pc = "wait"
    /\ untilTick = 0
    /\ hb' = [hb EXCEPT !.pc = "enter"]
    /\ untilTick' = HEARTBEAT_INTERVAL
    /\ UNCHANGED <<connections, conns, nextConn, map_lock, stream_lock, call>>

\* perform_heartbeat_check takes the lock of the map for its first block.
heartbeat_enter ==
    /\ UNCHANGED <<ftvars, discvars>>
    /\ hb.pc = "enter"
    /\ map_lock = "none"
    /\ map_lock' = "heartbeat"
    /\ hb' = Sweeping
    /\ UNCHANGED <<connections, conns, nextConn, stream_lock, call, untilTick>>

\* The heartbeat task: the select takes rx.recv(), the stop signal of
\* close_all_connections, and the task ends (connection_manager.rs 88-91).
heartbeat_stop ==
    /\ UNCHANGED <<ftvars, discvars>>
    /\ hb.pc = "wait"
    /\ hb.rx > 0
    /\ hb' = [hb EXCEPT !.pc = "stopped", !.rx = 0]
    /\ UNCHANGED <<connections, conns, nextConn, map_lock, stream_lock, call, untilTick>>

\* ConnectionManager::close_all_connections (connection_manager.rs 261-274):
\* with the lock of the map, the map is cleared and the stop signal sent to
\* the heartbeat task on a channel that holds one signal.  Without a task
\* (heartbeat_tx is None) or with a task that has ended (the send returns an
\* error) the call returns; with a signal in the channel already the send
\* waits, the guard of the map held.
close_all_connections(c) ==
    /\ UNCHANGED <<ftvars, discvars>>
    /\ call[c].pc = "idle"
    /\ map_lock = "none"
    /\ connections' = [p \in PeerIds |-> NoConn]
    /\ IF hb.pc \in {"off", "stopped"}
         THEN UNCHANGED <<hb, call, map_lock>>
         ELSE IF hb.rx < StopCapacity
         THEN /\ hb' = [hb EXCEPT !.rx = @ + 1]
              /\ UNCHANGED <<call, map_lock>>
         ELSE /\ call' = [call EXCEPT ![c].pc = "stop"]
              /\ map_lock' = c
              /\ UNCHANGED hb
    /\ conns' = Drop(conns, connections', call')
    /\ UNCHANGED <<nextConn, stream_lock, untilTick>>

\* close_all_connections: the send that waited has ended, the channel has
\* room again or the task has ended; the guard of the map is dropped.
close_all_sent(c) ==
    /\ UNCHANGED <<ftvars, discvars>>
    /\ call[c].pc = "stop"
    /\ hb.rx < StopCapacity
    /\ hb' = IF hb.pc = "stopped" THEN hb ELSE [hb EXCEPT !.rx = @ + 1]
    /\ call' = [call EXCEPT ![c].pc = "idle"]
    /\ map_lock' = "none"
    /\ UNCHANGED <<connections, conns, nextConn, stream_lock, untilTick>>

\* perform_heartbeat_check, one turn of the loop over the map: an inactive or
\* idle connection is marked for removal, another one gets a heartbeat.
heartbeat_check(p) ==
    /\ UNCHANGED <<ftvars, discvars>>
    /\ hb.pc = "check"
    /\ p \in hb.todo
    /\ IF ~conns[connections[p]].is_active \/ is_idle(conns[connections[p]])
         THEN hb' = [hb EXCEPT !.todo = @ \ {p},
                               !.connections_to_remove = @ \cup {p}]
         ELSE hb' = [hb EXCEPT !.pc = "lock", !.peer_id = p]
    /\ UNCHANGED <<connections, conns, nextConn, map_lock, stream_lock, call, untilTick>>

\* A send_heartbeat that takes the stream without waiting for its lock.
heartbeat_lock_anyway ==
    /\ UNCHANGED <<ftvars, discvars>>
    /\ hb.pc = "lock"
    /\ stream_lock' = [stream_lock EXCEPT ![connections[hb.peer_id]] = "heartbeat"]
    /\ hb' = [hb EXCEPT !.pc = "write"]
    /\ UNCHANGED <<connections, conns, nextConn, map_lock, call, untilTick>>

\* send_heartbeat: connection.stream.lock().await
heartbeat_lock ==
    /\ UNCHANGED <<ftvars, discvars>>
    /\ hb.pc = "lock"
    /\ stream_lock[connections[hb.peer_id]] = "none"
    /\ stream_lock' = [stream_lock EXCEPT ![connections[hb.peer_id]] = "heartbeat"]
    /\ hb' = [hb EXCEPT !.pc = "write"]
    /\ UNCHANGED <<connections, conns, nextConn, map_lock, call, untilTick>>

\* send_heartbeat: timeout(5 s, write_all).  ok is the outcome.
send_heartbeat(ok) ==
    /\ UNCHANGED <<ftvars, discvars>>
    /\ hb.pc = "write"
    /\ LET k == connections[hb.peer_id] IN
         /\ stream_lock' = [stream_lock EXCEPT ![k] = "none"]
         /\ IF ok
              THEN /\ conns' = update_activity(conns, k)
                   /\ hb' = [hb EXCEPT !.pc = "check", !.todo = @ \ {hb.peer_id},
                                       !.peer_id = "None"]
              ELSE /\ conns' = set_inactive(conns, k)
                   /\ hb' = [hb EXCEPT !.pc = "check", !.todo = @ \ {hb.peer_id},
                                       !.connections_to_remove = @ \cup {hb.peer_id},
                                       !.peer_id = "None"]
    /\ UNCHANGED <<connections, nextConn, map_lock, call, untilTick>>

\* perform_heartbeat_check: the loop is over and the guard of the map is
\* dropped.
heartbeat_checked ==
    /\ UNCHANGED <<ftvars, discvars>>
    /\ hb.pc = "check"
    /\ hb.todo = {}
    /\ map_lock' = "none"
    /\ hb' = [hb EXCEPT !.pc = IF hb.connections_to_remove = {} THEN "wait" ELSE "remove"]
    /\ UNCHANGED <<connections, conns, nextConn, stream_lock, call, untilTick>>

\* perform_heartbeat_check, second block: connections_guard.remove(&peer_id)
\* for each marked peer-id.
RemoveAll(map, peer_ids) ==
    [p \in PeerIds |-> IF p \in peer_ids THEN NoConn ELSE map[p]]

heartbeat_remove ==
    /\ UNCHANGED <<ftvars, discvars>>
    /\ hb.pc = "remove"
    /\ map_lock = "none"
    /\ connections' = RemoveAll(connections, hb.connections_to_remove)
    /\ hb' = [hb EXCEPT !.pc = "wait", !.connections_to_remove = {}]
    /\ conns' = Drop(conns, connections', call)
    /\ UNCHANGED <<nextConn, map_lock, stream_lock, call, untilTick>>

\* A step of a call in progress.
CallStep ==
    \E c \in Callers :
        \/ get_or_create_check(c)
        \/ \E ok \in BOOLEAN : get_or_create_dial(c, ok)
        \/ get_or_create_insert(c)
        \/ send_lock(c)
        \/ \E ok \in BOOLEAN : send_write(c, ok)
        \/ send_remove(c)
        \/ close_all_sent(c)

\* A step of the heartbeat task.
HeartbeatStep ==
    \/ start_heartbeat_service
    \/ heartbeat_tick
    \/ heartbeat_enter
    \/ heartbeat_stop
    \/ \E p \in PeerIds : heartbeat_check(p)
    \/ heartbeat_lock
    \/ \E ok \in BOOLEAN : send_heartbeat(ok)
    \/ heartbeat_checked
    \/ heartbeat_remove

\* TimeStep seconds pass.  Every await of a task ends within its timeout (10 s
\* at most), so time passes only when no task has a step to take: each one
\* waits for a command, for the tick, or for a lock.
Tick ==
    /\ UNCHANGED <<ftvars, discvars>>
    /\ ~ENABLED CallStep
    /\ ~ENABLED HeartbeatStep
    /\ conns' = [k \in DOMAIN conns |->
                   [conns[k] EXCEPT !.idle_for = Min(@ + TimeStep, MaxAge)]]
    /\ untilTick' = IF untilTick > TimeStep THEN untilTick - TimeStep ELSE 0
    /\ UNCHANGED <<connections, nextConn, map_lock, stream_lock, call, hb>>

CMNext ==
    \/ start_heartbeat_service /\ UNCHANGED chatvars
    \/ \E c \in Callers, peer_id \in PeerIds : send_message(c, peer_id) /\ UNCHANGED chatvars
    \/ \E c \in Callers : get_or_create_check(c) /\ UNCHANGED chatvars
    \/ \E c \in Callers, ok \in BOOLEAN : get_or_create_dial(c, ok) /\ UNCHANGED chatvars
    \/ \E c \in Callers : get_or_create_insert(c) /\ UNCHANGED chatvars
    \/ \E c \in Callers : send_lock(c) /\ UNCHANGED chatvars
    \/ \E c \in Callers, ok \in BOOLEAN : send_write(c, ok) /\ UNCHANGED chatvars
    \/ \E c \in Callers : send_remove(c) /\ UNCHANGED chatvars
    \/ \E c \in Callers : close_all_connections(c) /\ UNCHANGED chatvars
    \/ \E c \in Callers : close_all_sent(c) /\ UNCHANGED chatvars
    \/ heartbeat_tick /\ UNCHANGED chatvars
    \/ heartbeat_enter /\ UNCHANGED chatvars
    \/ heartbeat_stop /\ UNCHANGED chatvars
    \/ \E p \in PeerIds : heartbeat_check(p) /\ UNCHANGED chatvars
    \/ heartbeat_lock /\ UNCHANGED chatvars
    \/ \E ok \in BOOLEAN : send_heartbeat(ok) /\ UNCHANGED chatvars
    \/ heartbeat_checked /\ UNCHANGED chatvars
    \/ heartbeat_remove /\ UNCHANGED chatvars
    \/ Tick /\ UNCHANGED chatvars

SpecCM == Init /\ [][CMNext]_vars

\* The connection manager called by two tasks at once, each call going
\* through get_or_create_connection and the write of send_message.
ClientsNext ==
    \/ start_heartbeat_service /\ UNCHANGED chatvars
    \/ \E c \in Clients, peer_id \in PeerIds : send_message(c, peer_id) /\ UNCHANGED chatvars
    \/ \E c \in Clients : get_or_create_check(c) /\ UNCHANGED chatvars
    \/ \E c \in Clients, ok \in BOOLEAN : get_or_create_dial(c, ok) /\ UNCHANGED chatvars
    \/ \E c \in Clients : get_or_create_insert(c) /\ UNCHANGED chatvars
    \/ \E c \in Clients : send_lock(c) /\ UNCHANGED chatvars
    \/ \E c \in Clients, ok \in BOOLEAN : send_write(c, ok) /\ UNCHANGED chatvars
    \/ \E c \in Clients : send_remove(c) /\ UNCHANGED chatvars

SpecClients == Init /\ [][ClientsNext]_vars

\* The tasks of the tokio runtime are scheduled fairly: a call in progress
\* and the heartbeat task take the step they can take, the interval ticks,
\* and time goes on.
SpecCMFair ==
    /\ SpecCM
    /\ WF_vars(CallStep /\ UNCHANGED chatvars)
    /\ WF_vars(HeartbeatStep /\ UNCHANGED chatvars)
    /\ WF_vars(Tick /\ UNCHANGED chatvars)

\* NetworkDiscovery::start_discovery.  The call fails at the step outcome
\* names: the creation of the daemon, daemon.register or daemon.browse.  A
\* daemon whose handle is dropped without unregister goes on advertising
\* what it has registered.  The receiver thread is spawned before the
\* running flag is set: early says that the thread reads the flag at the top
\* of its loop before start_discovery has set it, and so leaves the loop.
\* self.stop_tx = Some(stop_tx) drops the sender it replaces: the
\* event-processor task of the session that sender belongs to gets None from
\* stop_rx.recv(), which ends its loop as the stop signal does.
start_discovery(outcome, early) ==
    /\ UNCHANGED <<ftvars, cmvars, chatvars, last_resolved, addresses, emitted, username>>
    /\ dcall.pc = "idle"
    /\ IF AlreadyRunning
         THEN /\ dcall' = [op |-> "start_discovery", pc |-> "idle",
                           result |-> "DiscoveryError: Discovery already running"]
              /\ UNCHANGED <<peers, is_running, service_registered, daemon, stop_tx,
                             advertising, tasks, nextDaemon>>
         ELSE IF outcome = "daemon"
         THEN /\ dcall' = [op |-> "start_discovery", pc |-> "idle", result |-> "MdnsError"]
              /\ UNCHANGED <<peers, is_running, service_registered, daemon, stop_tx,
                             advertising, tasks, nextDaemon>>
         ELSE /\ nextDaemon <= MaxDaemons
              /\ nextDaemon' = nextDaemon + 1
              /\ UNCHANGED peers
              /\ IF outcome = "register"
                   THEN /\ dcall' = [op |-> "start_discovery", pc |-> "idle",
                                     result |-> "MdnsError"]
                        /\ UNCHANGED <<is_running, service_registered, daemon, stop_tx,
                                       advertising, tasks>>
                   ELSE /\ service_registered' = TRUE
                        /\ advertising' = advertising \cup {nextDaemon}
                        /\ IF outcome = "browse"
                             THEN /\ dcall' = [op |-> "start_discovery", pc |-> "idle",
                                               result |-> "MdnsError"]
                                  /\ UNCHANGED <<is_running, daemon, stop_tx, tasks>>
                             ELSE /\ is_running' = TRUE
                                  /\ daemon' = nextDaemon
                                  /\ stop_tx' = nextDaemon
                                  /\ tasks' = [t \in (DOMAIN tasks) \cup {nextDaemon} |->
                                                 IF t = nextDaemon
                                                 THEN [stop |-> FALSE, until |-> 0]
                                                 ELSE IF t = stop_tx
                                                 THEN [tasks[t] EXCEPT !.stop = TRUE]
                                                 ELSE tasks[t]]
                                  /\ dcall' = [op |-> "start_discovery", pc |-> "idle",
                                               result |-> "Ok"]
    /\ txt' = Registered(txt, advertising', discovery_user_name)
    /\ receiver' = IF ~AlreadyRunning /\ outcome = "ok" /\ ~early
                     THEN receiver \cup {nextDaemon} ELSE receiver

\* NetworkDiscovery::stop_discovery up to its first sleep: not running, it
\* returns; running, it clears the flag and sends the stop signal.
stop_discovery ==
    /\ UNCHANGED <<ftvars, cmvars, chatvars, receiver, last_resolved, addresses, emitted, username, txt>>
    /\ dcall.pc = "idle"
    /\ IF ~is_running
         THEN /\ dcall' = [op |-> "stop_discovery", pc |-> "idle", result |-> "Ok"]
              /\ UNCHANGED <<is_running, stop_tx, tasks>>
         ELSE /\ is_running' = FALSE
              /\ stop_tx' = NoDaemon
              /\ tasks' = [t \in DOMAIN tasks |->
                             IF t = stop_tx THEN [tasks[t] EXCEPT !.stop = TRUE]
                                            ELSE tasks[t]]
              /\ dcall' = [op |-> "stop_discovery", pc |-> "unregister", result |-> "None"]
    /\ UNCHANGED <<peers, service_registered, daemon, advertising, nextDaemon>>

\* stop_discovery after the first sleep: self.daemon.take() and, if the
\* service is registered, daemon.unregister; ok is its outcome.
stop_unregister(ok) ==
    /\ UNCHANGED <<ftvars, cmvars, chatvars, receiver, last_resolved, addresses, emitted, username>>
    /\ dcall.pc = "unregister"
    /\ daemon' = NoDaemon
    /\ IF daemon # NoDaemon /\ service_registered
         THEN /\ service_registered' = FALSE
              /\ advertising' = IF ok THEN advertising \ {daemon} ELSE advertising
         ELSE UNCHANGED <<service_registered, advertising>>
    /\ dcall' = [dcall EXCEPT !.pc = "clear"]
    /\ UNCHANGED <<peers, is_running, stop_tx, tasks, nextDaemon>>
    /\ txt' = Registered(txt, advertising', discovery_user_name)

\* stop_discovery after the second sleep: peers.clear() and return.
stop_clear ==
    /\ UNCHANGED <<ftvars, cmvars, chatvars, receiver, last_resolved, emitted, username, txt>>
    /\ dcall.pc = "clear"
    /\ peers' = <<>>
    /\ dcall' = [dcall EXCEPT !.pc = "idle", !.result = "Ok"]
    /\ UNCHANGED <<is_running, service_registered, daemon, stop_tx, advertising,
                   tasks, nextDaemon>>
    /\ addresses' = <<>>

\* The receiver thread of session t leaves its loop: it reads the running
\* flag clear at the top of the loop, or the event-processor task of its
\* session has ended and blocking_send of the next event fails.
receiver_exit(t) ==
    /\ UNCHANGED <<ftvars, cmvars, chatvars, last_resolved, addresses, emitted, username, txt>>
    /\ t \in receiver
    /\ ~is_running \/ t \notin DOMAIN tasks
    /\ receiver' = receiver \ {t}
    /\ UNCHANGED <<peers, is_running, service_registered, daemon, stop_tx, advertising,
                   tasks, nextDaemon, dcall>>

\* The event-processor task, ServiceEvent::ServiceResolved carrying the
\* response info: a user other than the local one is inserted with the first
\* address of the response and last_seen = now, and peer_discovered is
\* emitted.
ServiceResolved(t, info) ==
    /\ UNCHANGED <<ftvars, cmvars, chatvars, receiver, username, txt>>
    /\ t \in DOMAIN tasks
    /\ t \in receiver
    /\ last_resolved' = info.user.id
    /\ IF IsPeer(info.user.id)
         THEN \E ip \in FirstAddress(info) :
                /\ peers' = InsertPeer(peers, info.user.id)
                /\ addresses' = [u \in DOMAIN peers' |->
                                   IF u = info.user.id THEN ip ELSE addresses[u]]
                /\ emitted' = <<[name |-> "peer_discovered",
                                 payload |-> [id |-> info.user.id, ip |-> ip]]>>
         ELSE /\ UNCHANGED <<peers, addresses>>
              /\ emitted' = <<>>
    /\ UNCHANGED <<is_running, service_registered, daemon, stop_tx, advertising,
                   tasks, nextDaemon, dcall>>

\* The event-processor task, ServiceEvent::ServiceRemoved of the instance
\* name: the records whose id the name contains are dropped, and
\* peers_updated is emitted if the count has changed.
ServiceRemoved(t, name) ==
    /\ UNCHANGED <<ftvars, cmvars, chatvars, receiver, last_resolved, username, txt>>
    /\ t \in DOMAIN tasks
    /\ t \in receiver
    /\ peers' = Retain(peers, {u \in DOMAIN peers : ~Contains(name, u)})
    /\ addresses' = Retain(addresses, DOMAIN peers')
    /\ emitted' = IF Cardinality(DOMAIN peers') # Cardinality(DOMAIN peers)
                    THEN <<[name |-> "peers_updated", payload |-> DOMAIN peers']>>
                    ELSE <<>>
    /\ UNCHANGED <<is_running, service_registered, daemon, stop_tx, advertising,
                   tasks, nextDaemon, dcall>>

\* The event-processor task, cleanup_interval.tick(): the records seen
\* PEER_TIMEOUT seconds ago or longer are dropped.
cleanup_tick(t) ==
    /\ UNCHANGED <<ftvars, cmvars, chatvars, receiver, last_resolved, username, txt>>
    /\ t \in DOMAIN tasks
    /\ tasks[t].until = 0
    /\ peers' = Retain(peers, {u \in DOMAIN peers : peers[u] < PEER_TIMEOUT})
    /\ addresses' = Retain(addresses, DOMAIN peers')
    /\ emitted' = IF Cardinality(DOMAIN peers') # Cardinality(DOMAIN peers)
                    THEN <<[name |-> "peers_updated", payload |-> DOMAIN peers']>>
                    ELSE <<>>
    /\ tasks' = [tasks EXCEPT ![t].until = DISCOVERY_INTERVAL]
    /\ UNCHANGED <<is_running, service_registered, daemon, stop_tx, advertising,
                   nextDaemon, dcall>>

\* The event-processor task, stop_rx.recv() gives the stop signal or, the
\* sender dropped, None: the loop is left, the running flag is cleared and
\* the task ends.
task_stop(t) ==
    /\ UNCHANGED <<ftvars, cmvars, chatvars, receiver, last_resolved, addresses, emitted, username, txt>>
    /\ t \in DOMAIN tasks
    /\ tasks[t].stop
    /\ is_running' = FALSE
    /\ tasks' = [u \in (DOMAIN tasks) \ {t} |-> tasks[u]]
    /\ UNCHANGED <<peers, service_registered, daemon, stop_tx, advertising,
                   nextDaemon, dcall>>

\* DiscoveryStep seconds pass.  The sleeps of stop_discovery, a tick that is
\* due and a stop signal that has been sent take less than that.
Elapse ==
    /\ UNCHANGED <<ftvars, cmvars, chatvars, receiver, last_resolved, addresses, emitted, username, txt>>
    /\ dcall.pc = "idle"
    /\ \A t \in DOMAIN tasks : ~tasks[t].stop /\ tasks[t].until > 0
    /\ peers' = [u \in DOMAIN peers |-> Min(peers[u] + DiscoveryStep, MaxSeen)]
    /\ tasks' = [t \in DOMAIN tasks |->
                   [tasks[t] EXCEPT !.until = IF @ > DiscoveryStep
                                                THEN @ - DiscoveryStep ELSE 0]]
    /\ UNCHANGED <<is_running, service_registered, daemon, stop_tx, advertising,
                   nextDaemon, dcall>>

\* The sessions of the discovery with the clock of the directory: the daemon
\* resolves and removes the advertisements of the local user and of one
\* peer.
DiscoveryNext ==
    \/ \E outcome \in StartOutcomes : start_discovery(outcome, FALSE)
    \/ stop_discovery
    \/ \E ok \in BOOLEAN : stop_unregister(ok)
    \/ stop_clear
    \/ \E t \in DaemonIds, id \in Recipients \cup {LocalId} : ServiceResolved(t, Advertisement(id))
    \/ \E t \in DaemonIds, id \in Recipients \cup {LocalId} : ServiceRemoved(t, FullName(id))
    \/ \E t \in DaemonIds : cleanup_tick(t)
    \/ \E t \in DaemonIds : task_stop(t)
    \/ Elapse

SpecDiscovery == Init /\ [][DiscoveryNext]_vars

\* The sessions of the discovery with their two threads of control each, the
\* receiver thread and the event-processor task, under every scheduling of
\* the receiver thread; the daemon resolves and removes the advertisements
\* of the local user and of one peer.
ReceiverNext ==
    \/ \E outcome \in StartOutcomes, early \in BOOLEAN : start_discovery(outcome, early)
    \/ stop_discovery
    \/ \E ok \in BOOLEAN : stop_unregister(ok)
    \/ stop_clear
    \/ \E t \in DaemonIds, id \in Recipients \cup {LocalId} : ServiceResolved(t, Advertisement(id))
    \/ \E t \in DaemonIds, id \in Recipients \cup {LocalId} : ServiceRemoved(t, FullName(id))
    \/ \E t \in DaemonIds : task_stop(t)
    \/ \E t \in DaemonIds : receiver_exit(t)

SpecReceiver == Init /\ [][ReceiverNext]_vars

\* The command send_message of lib.rs, up to its first lookup of the peer.
send_message_command(peer_id, content) ==
    /\ UNCHANGED <<now, marked, reading, responding>>
    /\ UNCHANGED <<ftvars, cmvars, discvars>>
    /\ cmd.pc = "idle"
    /\ hb.pc # "off"
    /\ nextMsg <= MaxMessages
    /\ LET peer == get_peer_by_id(peers, peer_id)
       IN cmd' = [pc |-> IF Found(peer) THEN "store" ELSE "refresh",
                  peer_id |-> peer_id, content |-> content, message |-> NoMessage,
                  refreshes |-> 0, lookups |-> 1, result |-> "None"]
    /\ UNCHANGED <<nextMsg, messages, events, wire>>

\* The peer was not found: refresh_peer_discovery, whose failure is only
\* logged, and the sleep of 1000 ms.
command_refresh(ok) ==
    /\ UNCHANGED <<now, marked, reading, responding>>
    /\ UNCHANGED <<ftvars, cmvars, discvars>>
    /\ cmd.pc = "refresh"
    /\ (daemon = NoDaemon) => ok
    /\ cmd' = [cmd EXCEPT !.pc = "again", !.refreshes = @ + 1]
    /\ UNCHANGED <<nextMsg, messages, events, wire>>

\* The second lookup, and the arm None of match peer: the error return.
command_lookup_again ==
    /\ UNCHANGED <<now, marked, reading, responding>>
    /\ UNCHANGED <<ftvars, cmvars, discvars>>
    /\ cmd.pc = "again"
    /\ LET peer == get_peer_by_id(peers, cmd.peer_id)
       IN cmd' = IF Found(peer)
                 THEN [cmd EXCEPT !.pc = "store", !.lookups = @ + 1]
                 ELSE [cmd EXCEPT !.pc = "idle", !.lookups = @ + 1,
                                  !.result = "Err: Peer not found"]
    /\ UNCHANGED <<nextMsg, messages, events, wire>>

\* The arm Some: the message is built and stored locally first.
command_store ==
    /\ UNCHANGED <<now, marked, reading, responding>>
    /\ UNCHANGED <<ftvars, cmvars, discvars>>
    /\ cmd.pc = "store"
    /\ LET message == NewMessage(Uuid(nextMsg), cmd.peer_id, cmd.content, now)
       IN /\ messages' = store_sent_message(messages, message)
          /\ cmd' = [cmd EXCEPT !.pc = "send", !.message = message]
    /\ nextMsg' = nextMsg + 1
    /\ UNCHANGED <<events, wire>>

\* state.connection_manager.send_message(&peer_id, &message, &peer_info.ip, 8765)
command_send ==
    /\ UNCHANGED <<now, marked, reading, responding>>
    /\ cmd.pc = "send"
    /\ send_message("ui", cmd.peer_id)
    /\ cmd' = [cmd EXCEPT !.pc = "sending"]
    /\ UNCHANGED <<nextMsg, messages, events, wire>>

\* The call of the connection manager has returned: Ok emits message_sent
\* and returns the message, Err returns the error.
command_return ==
    /\ UNCHANGED <<now, marked, reading, responding>>
    /\ UNCHANGED <<ftvars, cmvars, discvars>>
    /\ cmd.pc = "sending"
    /\ call["ui"].pc = "idle"
    /\ IF call["ui"].result = "Ok"
         THEN /\ events' = emit_event(events, LocalId, "message_sent", cmd.message)
              /\ cmd' = [cmd EXCEPT !.pc = "idle", !.result = "Ok"]
         ELSE /\ events' = events
              /\ cmd' = [cmd EXCEPT !.pc = "idle", !.result = "Err: NetworkError"]
    /\ UNCHANGED <<nextMsg, messages, wire>>

\* The bytes a write puts on a stream: all of the text if it succeeds, the
\* first n of them if it fails.
Written(w, k, text, ok, n) ==
    [w EXCEPT ![k].bytes = @ \o (IF ok THEN text ELSE SubSeq(text, 1, n)),
              ![k].written = IF ok THEN @ + 1 ELSE @]

\* TcpStream::connect of get_or_create_connection: the chat service of the
\* peer accepts the stream and spawns its handler.
connect(c, ok) ==
    /\ UNCHANGED <<now, marked, reading, responding>>
    /\ get_or_create_dial(c, ok)
    /\ wire' = IF ok
                 THEN [wire EXCEPT ![nextConn] = [to |-> call[c].peer_id, bytes |-> <<>>,
                                                  written |-> 0, responses |-> 0]]
                 ELSE wire
    /\ UNCHANGED <<cmd, nextMsg, messages, events>>

\* The write of send_message: the envelope of the message of the command.
write_message(c, ok, n) ==
    /\ UNCHANGED <<now, marked, reading, responding>>
    /\ send_write(c, ok)
    /\ LET text == to_string("message", MessageData(cmd.message))
       IN /\ n < Len(text)
          /\ ok => n = 0
          /\ wire' = Written(wire, call[c].connection, text, ok, n)
    /\ UNCHANGED <<cmd, nextMsg, messages, events>>

\* The write of send_heartbeat: the heartbeat envelope.
write_heartbeat(ok, n) ==
    /\ UNCHANGED <<now, marked, reading, responding>>
    /\ send_heartbeat(ok)
    /\ LET text == to_string("heartbeat", <<>>)
       IN /\ n < Len(text)
          /\ ok => n = 0
          /\ wire' = Written(wire, connections[hb.peer_id], text, ok, n)
    /\ UNCHANGED <<cmd, nextMsg, messages, events>>

\* A remote peer writes the envelope of a message on the stream it has
\* opened to the chat service of the node, once the services are started.
remote_write(message) ==
    /\ UNCHANGED <<now, marked, reading, responding>>
    /\ UNCHANGED <<ftvars, cmvars, discvars>>
    /\ hb.pc # "off"
    /\ wire[InboundStream].written < MaxRemote
    /\ wire' = Written(wire, InboundStream, to_string("message", MessageData(message)),
                       TRUE, 0)
    /\ UNCHANGED <<cmd, nextMsg, messages, events>>

\* One turn of the loop of handle_incoming_connection on stream k up to its
\* await: a read gives the first n bytes that have arrived (the buffer holds
\* BufferSize), the buffer is parsed as one JSON value and dispatched on its
\* type.  For a heartbeat the handler builds the heartbeat_response and
\* awaits stream.write_all (303), which has no timeout: until the stream has
\* taken the response the handler neither reads nor returns.
handle_incoming_connection(k, n) ==
    /\ UNCHANGED <<now, marked>>
    /\ UNCHANGED <<ftvars, cmvars, discvars>>
    /\ reading[k] /\ ~responding[k]
    /\ n \in 1..Min(Len(wire[k].bytes), BufferSize)
    /\ LET buffer == SubSeq(wire[k].bytes, 1, n)
           rest == SubSeq(wire[k].bytes, n + 1, Len(wire[k].bytes))
           json_value == from_slice(buffer)
           parsed == from_value(json_value.data)
           heartbeat == json_value.ok /\ json_value.type = "heartbeat"
       IN /\ wire' = [wire EXCEPT ![k].bytes = rest]
          /\ responding' = [responding EXCEPT ![k] = heartbeat]
          /\ events' = IF json_value.ok /\ json_value.type = "message" /\ parsed.ok
                         THEN handle_received_message(events, wire[k].to, parsed.message)
                         ELSE events
    /\ UNCHANGED <<cmd, nextMsg, messages, reading>>

\* The write_all of the heartbeat_response on stream k ends
\* (connection_manager.rs 303-306): written, and the loop goes on with the
\* next read; or with an error, and the handler leaves the loop.
handle_incoming_connection_write_all(k, written) ==
    /\ UNCHANGED <<ftvars, cmvars, discvars>>
    /\ reading[k] /\ responding[k]
    /\ wire' = [wire EXCEPT ![k].responses = IF written THEN @ + 1 ELSE @]
    /\ responding' = [responding EXCEPT ![k] = FALSE]
    /\ reading' = [reading EXCEPT ![k] = written]
    /\ UNCHANGED <<cmd, nextMsg, messages, events, now, marked>>

\* The ways a read of the loop ends it: Ok(0), the peer has closed the
\* stream; Err(e); and the timeout of 30 s.
ReadEnds == {"closed", "error", "timeout"}

\* A turn of the loop of handle_incoming_connection on stream k whose read
\* ends the loop.  The stream is closed when the handler returns.  A handler
\* that awaits the write of a response is not in a read.
read_break(k, end) ==
    /\ UNCHANGED <<ftvars, cmvars, discvars>>
    /\ hb.pc # "off"
    /\ reading[k] /\ ~responding[k]
    /\ end # "error" => wire[k].bytes = <<>>
    /\ reading' = [reading EXCEPT ![k] = FALSE]
    /\ UNCHANGED <<cmd, nextMsg, messages, events, wire, now, marked, responding>>

\* The types of the envelopes without data a remote peer writes: the two of
\* the heartbeat and one the read loop does not know.
RemoteTypes == {"heartbeat", "heartbeat_response", "ping"}

\* A remote peer writes an envelope without data on the stream it has opened
\* to the chat service of the node.
remote_envelope(type) ==
    /\ UNCHANGED <<ftvars, cmvars, discvars>>
    /\ hb.pc # "off"
    /\ wire[InboundStream].written < MaxEnvelopes
    /\ wire' = Written(wire, InboundStream, to_string(type, <<>>), TRUE, 0)
    /\ UNCHANGED <<cmd, nextMsg, messages, events, now, marked, reading, responding>>

\* A remote peer writes the envelope of a message after others.
remote_message(message) ==
    /\ UNCHANGED <<ftvars, cmvars, discvars>>
    /\ hb.pc # "off"
    /\ wire[InboundStream].written < MaxEnvelopes
    /\ wire' = Written(wire, InboundStream, to_string("message", MessageData(message)),
                       TRUE, 0)
    /\ UNCHANGED <<cmd, nextMsg, messages, events, now, marked, reading, responding>>

\* The read loop of the chat service of the node on the stream a peer has
\* opened: the peer writes envelopes of every type, the reads divide the
\* bytes as they come, and the loop is left.
ReadLoopNext ==
    \/ hb.pc = "off" /\ ~is_running /\ start_discovery("ok", FALSE)
    \/ is_running /\ start_heartbeat_service /\ UNCHANGED chatvars
    \/ \E type \in RemoteTypes : remote_envelope(type)
    \/ \E message \in RemoteMessages : remote_message(message)
    \/ \E n \in ReadLengths(wire[InboundStream].bytes) :
           handle_incoming_connection(InboundStream, n)
    \/ \E written \in BOOLEAN :
           handle_incoming_connection_write_all(InboundStream, written)
    \/ \E end \in ReadEnds : read_break(InboundStream, end)

SpecReadLoop == Init /\ [][ReadLoopNext]_vars

\* The node with its services started by ensure_services_initialized: the
\* command send_message, the connection manager with the first sweep of
\* its heartbeat task, the discovery with its event-processor task, and the
\* chat services of the node and of its peers.
ChatNext ==
    \/ hb.pc = "off" /\ ~is_running /\ start_discovery("ok", FALSE)
    \/ is_running /\ start_heartbeat_service /\ UNCHANGED chatvars
    \/ \E t \in DaemonIds, id \in Recipients : ServiceResolved(t, Advertisement(id))
    \/ \E peer_id \in Recipients, content \in Contents :
           send_message_command(peer_id, content)
    \/ \E ok \in BOOLEAN : command_refresh(ok)
    \/ command_lookup_again
    \/ command_store
    \/ command_send
    \/ command_return
    \/ \E c \in Callers : get_or_create_check(c) /\ UNCHANGED chatvars
    \/ \E c \in Callers, ok \in BOOLEAN : connect(c, ok)
    \/ \E c \in Callers : get_or_create_insert(c) /\ UNCHANGED chatvars
    \/ \E c \in Callers : send_lock(c) /\ UNCHANGED chatvars
    \/ \E c \in Callers, ok \in BOOLEAN, n \in Torn : write_message(c, ok, n)
    \/ \E c \in Callers : send_remove(c) /\ UNCHANGED chatvars
    \/ heartbeat_tick /\ UNCHANGED chatvars
    \/ heartbeat_enter /\ UNCHANGED chatvars
    \/ \E p \in PeerIds : heartbeat_check(p) /\ UNCHANGED chatvars
    \/ heartbeat_lock /\ UNCHANGED chatvars
    \/ \E ok \in BOOLEAN, n \in Torn : write_heartbeat(ok, n)
    \/ heartbeat_checked /\ UNCHANGED chatvars
    \/ heartbeat_remove /\ UNCHANGED chatvars
    \/ \E message \in RemoteMessages : remote_write(message)
    \/ \E k \in StreamIds :
           \E n \in ReadLengths(wire[k].bytes) : handle_incoming_connection(k, n)
    \/ \E k \in StreamIds : handle_incoming_connection_write_all(k, TRUE)

SpecChat == Init /\ [][ChatNext]_vars

(***************************************************************************)
(* The writers of the streams of the connection manager: two tasks that    *)
(* call ConnectionManager::send_message at the same time through their     *)
(* references to the manager, and the sweep of the heartbeat task.         *)
(* write_all hands its text to the stream piece by piece (poll_write), and *)
(* the task yields between two pieces with the guard of the stream held.   *)
(***************************************************************************)
\* The message a task passes to send_message.
ClientMessage(c) ==
    NewMessage(IF c = "ui" THEN Uuid(1) ELSE Uuid(2), call[c].peer_id, "hello", 0)
\* full_message_str of send_message (connection_manager.rs 212).
MessageText(c) == to_string("message", MessageData(ClientMessage(c)))
\* heartbeat_data of send_heartbeat (connection_manager.rs 136).
HeartbeatText == to_string("heartbeat", <<>>)
\* The piece of a text the first poll_write of write_all takes, up to the
\* type of the envelope, and the rest of the text.
FirstPiece(text) == SubSeq(text, 1, 2)
RestPiece(text) == SubSeq(text, 3, Len(text))

\* A task calls ConnectionManager::send_message with its message.
client_send(c, peer_id) ==
    /\ nextMsg <= MaxMessages
    /\ nextMsg' = nextMsg + 1
    /\ send_message(c, peer_id)
    /\ UNCHANGED <<cmd, messages, events, wire, now, marked, reading, responding>>

\* send_message, write_all: the first piece of the envelope is on the
\* stream and the task waits for the stream to take more.
send_message_poll_write(c) ==
    /\ UNCHANGED <<ftvars, discvars>>
    /\ call[c].pc = "write"
    /\ call' = [call EXCEPT ![c].pc = "rest"]
    /\ wire' = [wire EXCEPT ![call[c].connection].bytes = @ \o FirstPiece(MessageText(c))]
    /\ UNCHANGED <<connections, conns, nextConn, map_lock, stream_lock, hb, untilTick>>
    /\ UNCHANGED <<cmd, nextMsg, messages, events, now, marked, reading, responding>>

\* send_message, the rest of write_all and the flush, or the timeout of
\* 10 s: ok is the outcome.  Ok updates the activity and drops the guard;
\* a failure marks the connection inactive and goes on to
\* remove_connection, the guard of the stream still held.
send_message_write_all(c, ok) ==
    /\ UNCHANGED <<ftvars, discvars>>
    /\ call[c].pc = "rest"
    /\ IF ok
         THEN /\ conns' = update_activity(conns, call[c].connection)
              /\ stream_lock' = [stream_lock EXCEPT ![call[c].connection] = "none"]
              /\ call' = [call EXCEPT ![c].pc = "idle", ![c].result = "Ok"]
              /\ wire' = Written(wire, call[c].connection, RestPiece(MessageText(c)), TRUE, 0)
         ELSE /\ conns' = set_inactive(conns, call[c].connection)
              /\ call' = [call EXCEPT ![c].pc = "remove"]
              /\ UNCHANGED <<stream_lock, wire>>
    /\ UNCHANGED <<connections, nextConn, map_lock, hb, untilTick>>
    /\ UNCHANGED <<cmd, nextMsg, messages, events, now, marked, reading, responding>>

\* send_heartbeat, write_all: the first piece of the heartbeat is on the
\* stream.
send_heartbeat_poll_write ==
    /\ UNCHANGED <<ftvars, discvars>>
    /\ hb.pc = "write"
    /\ hb' = [hb EXCEPT !.pc = "rest"]
    /\ wire' = [wire EXCEPT ![connections[hb.peer_id]].bytes = @ \o FirstPiece(HeartbeatText)]
    /\ UNCHANGED <<connections, conns, nextConn, map_lock, stream_lock, call, untilTick>>
    /\ UNCHANGED <<cmd, nextMsg, messages, events, now, marked, reading, responding>>

\* send_heartbeat, the rest of write_all or the timeout of 5 s: ok is the
\* outcome.  The guard of the stream is dropped either way.
send_heartbeat_write_all(ok) ==
    /\ UNCHANGED <<ftvars, discvars>>
    /\ hb.pc = "rest"
    /\ LET k == connections[hb.peer_id] IN
         /\ stream_lock' = [stream_lock EXCEPT ![k] = "none"]
         /\ IF ok
              THEN /\ conns' = update_activity(conns, k)
                   /\ hb' = [hb EXCEPT !.pc = "check", !.todo = @ \ {hb.peer_id},
                                       !.peer_id = "None"]
                   /\ wire' = Written(wire, k, RestPiece(HeartbeatText), TRUE, 0)
              ELSE /\ conns' = set_inactive(conns, k)
                   /\ hb' = [hb EXCEPT !.pc = "check", !.todo = @ \ {hb.peer_id},
                                       !.connections_to_remove = @ \cup {hb.peer_id},
                                       !.peer_id = "None"]
                   /\ UNCHANGED wire
    /\ UNCHANGED <<connections, nextConn, map_lock, call, untilTick>>
    /\ UNCHANGED <<cmd, nextMsg, messages, events, now, marked, reading, responding>>

WritersNext ==
    \/ start_heartbeat_service /\ UNCHANGED chatvars
    \/ \E c \in Clients, peer_id \in PeerIds : client_send(c, peer_id)
    \/ \E c \in Clients : get_or_create_check(c) /\ UNCHANGED chatvars
    \/ \E c \in Clients, ok \in BOOLEAN : connect(c, ok)
    \/ \E c \in Clients : get_or_create_insert(c) /\ UNCHANGED chatvars
    \/ \E c \in Clients : send_lock(c) /\ UNCHANGED chatvars
    \/ \E c \in Clients : send_write(c, FALSE) /\ UNCHANGED chatvars
    \/ \E c \in Clients : send_message_poll_write(c)
    \/ \E c \in Clients, ok \in BOOLEAN : send_message_write_all(c, ok)
    \/ \E c \in Clients : send_remove(c) /\ UNCHANGED chatvars
    \/ heartbeat_tick /\ UNCHANGED chatvars
    \/ heartbeat_enter /\ UNCHANGED chatvars
    \/ \E p \in PeerIds : heartbeat_check(p) /\ UNCHANGED chatvars
    \/ heartbeat_lock /\ UNCHANGED chatvars
    \/ send_heartbeat(FALSE) /\ UNCHANGED chatvars
    \/ send_heartbeat_poll_write
    \/ \E ok \in BOOLEAN : send_heartbeat_write_all(ok)
    \/ heartbeat_checked /\ UNCHANGED chatvars
    \/ heartbeat_remove /\ UNCHANGED chatvars

SpecWriters == Init /\ [][WritersNext]_vars

(***************************************************************************)
(* ChatManager::mark_messages_as_read and store_sent_message as functions  *)
(* of the message store, applied to every store of a bounded set: the      *)
(* bucket of one peer holds up to MaxBucket messages and the bucket of the *)
(* local user up to MaxOwn, to the local user or to somebody else, read or *)
(* not.                                                                    *)
(***************************************************************************)
\* The messages a bucket of the store may hold at the start.
StoredMessages ==
    {[id |-> "uuid-s", sender_id |-> "user-87654321", recipient_id |-> r,
      content |-> "hello", timestamp |-> 0, read |-> b] :
        r \in {LocalId, "user-0badcafe"}, b \in BOOLEAN}
\* The buckets of up to MaxBucket messages.
Buckets == UNION {[1..n -> StoredMessages] : n \in 0..MaxBucket}
\* The peer-ids mark_messages_as_read is called with: the users, and an id
\* the store has no bucket for.
MarkIds == UserIds \cup {"user-unknown"}

\* A marking that takes every message of the bucket, whoever it is to.
MarkWholeBucket(store, peer_id) ==
    IF peer_id \notin DOMAIN store
    THEN store
    ELSE [store EXCEPT ![peer_id] = [i \in DOMAIN @ |-> [@[i] EXCEPT !.read = TRUE]]]
\* The store after mark_messages_as_read(peer_id): messages.get_mut(peer_id),
\* and in that bucket read = true on the messages to the local user.
MarkBucket(store, peer_id) ==
    IF peer_id \notin DOMAIN store
    THEN store
    ELSE [store EXCEPT ![peer_id] =
             [i \in DOMAIN @ |-> IF @[i].recipient_id = LocalId
                                 THEN [@[i] EXCEPT !.read = TRUE]
                                 ELSE @[i]]]

\* A ChatManager whose store holds some messages already.
MarkReadInit ==
    /\ FTInit /\ CMInit /\ DiscoveryInit
    /\ cmd = [pc |-> "idle", peer_id |-> "None", content |-> "None", message |-> NoMessage,
              refreshes |-> 0, lookups |-> 0, result |-> "None"]
    /\ nextMsg = 1
    /\ messages \in {[u \in UserIds |-> IF u = LocalId THEN mine
                                        ELSE IF u = "user-87654321" THEN theirs ELSE <<>>] :
                        mine \in {b \in Buckets : Len(b) <= MaxOwn}, theirs \in Buckets}
    /\ events = [u \in UserIds |-> <<>>]
    /\ wire = [k \in StreamIds |->
                 [to |-> IF k = InboundStream THEN LocalId ELSE "None",
                  bytes |-> <<>>, written |-> 0, responses |-> 0]]
    /\ now = 0
    /\ marked = [peer_id |-> "None", result |-> "None"]
    /\ reading = [k \in StreamIds |-> TRUE]
    /\ responding = [k \in StreamIds |-> FALSE]

\* The command mark_messages_as_read of lib.rs (273-291), the services
\* started: ChatManager::mark_messages_as_read(peer_id) (chat.rs 295-309),
\* which always returns Ok, and the event messages_read with the peer-id.
mark_messages_as_read(peer_id) ==
    /\ UNCHANGED <<ftvars, cmvars, discvars>>
    /\ cmd.pc = "idle"
    /\ hb.pc # "off"
    /\ Len(events[LocalId]) < MaxEvents
    /\ messages' = MarkBucket(messages, peer_id)
    /\ marked' = [peer_id |-> peer_id, result |-> "Ok"]
    /\ events' = emit_event(events, LocalId, "messages_read", peer_id)
    /\ UNCHANGED <<cmd, nextMsg, wire, now, reading, responding>>

\* ChatManager::send_message_with_peer_ip up to its await (chat.rs 128-162):
\* the message is built and pushed on the bucket of the local user.
send_message_with_peer_ip(peer_id, content) ==
    /\ UNCHANGED <<ftvars, cmvars, discvars>>
    /\ cmd.pc = "idle"
    /\ nextMsg <= MaxMessages
    /\ LET message == NewMessage(Uuid(nextMsg), peer_id, content, now)
       IN /\ messages' = [messages EXCEPT ![LocalId] = Append(@, message)]
          /\ cmd' = [pc |-> "direct", peer_id |-> peer_id, content |-> content,
                     message |-> message, refreshes |-> 0, lookups |-> 0,
                     result |-> "None"]
    /\ nextMsg' = nextMsg + 1
    /\ UNCHANGED <<events, wire, now, marked, reading, responding>>

\* ChatManager::send_message_to_peer (chat.rs 172-240): a stream of its own
\* is opened to the chat service of the peer and the text of the message is
\* written on it, without an envelope; the stream is closed when the call
\* returns.  ok is the outcome of connect, write_all and flush, and a write
\* that fails has put the first n bytes on the stream.  One such stream is
\* open at a time.
send_message_to_peer(ok, n) ==
    /\ UNCHANGED <<ftvars, cmvars, discvars>>
    /\ cmd.pc = "direct"
    /\ wire[DirectStream].bytes = <<>>
    /\ LET text == message_json(cmd.message)
       IN /\ n < Len(text)
          /\ ok => n = 0
          /\ wire' = [wire EXCEPT ![DirectStream] =
                         [to |-> cmd.peer_id,
                          bytes |-> IF ok THEN text ELSE SubSeq(text, 1, n),
                          written |-> IF ok THEN 1 ELSE 0,
                          responses |-> 0]]
    /\ cmd' = [cmd EXCEPT !.pc = "idle",
                          !.result = IF ok THEN "Ok" ELSE "Err: NetworkError"]
    /\ reading' = [reading EXCEPT ![DirectStream] = TRUE]
    /\ responding' = [responding EXCEPT ![DirectStream] = FALSE]
    /\ UNCHANGED <<nextMsg, messages, events, now, marked>>

\* ChatManager::stop_chat_service (chat.rs 96-116).  No code sets stop_tx or
\* listener to Some or puts a stream in ChatManager.connections, so the
\* call sends no signal, clears what is empty and returns Ok: the accept
\* loop and the read loops go on.
stop_chat_service ==
    /\ cmd.pc = "idle"
    /\ UNCHANGED <<ftvars, cmvars, discvars, chatvars>>

\* ChatManager::store_sent_message(message) for a new message to a peer.
push_sent_message(peer_id, content) ==
    /\ UNCHANGED <<ftvars, cmvars, discvars>>
    /\ nextMsg <= MaxMessages
    /\ messages' = store_sent_message(messages, NewMessage(Uuid(nextMsg), peer_id, content, now))
    /\ nextMsg' = nextMsg + 1
    /\ UNCHANGED <<cmd, events, wire, now, marked, reading, responding>>

MarkReadNext ==
    \/ hb.pc = "off" /\ ~is_running /\ start_discovery("ok", FALSE)
    \/ is_running /\ start_heartbeat_service /\ UNCHANGED chatvars
    \/ \E peer_id \in MarkIds : mark_messages_as_read(peer_id)
    \/ \E peer_id \in PeerIds, content \in Contents : push_sent_message(peer_id, content)

SpecMarkRead == MarkReadInit /\ [][MarkReadNext]_vars

(***************************************************************************)
(* The directory of peers of the running node: the event-processor task    *)
(* handling the events of the mDNS daemon, with responses that carry       *)
(* several addresses or none and users whose id is part of the id of       *)
(* another, and the command update_username of the user.                   *)
(***************************************************************************)
\* The outcomes of daemon.register in broadcast_user_update.
BroadcastOutcomes == {"register", "ok"}
\* state.local_user with the name the command has set.
UserNamed(name) == [id |-> LocalId, name |-> name, ip |-> local_user["alpha"].ip]

\* The command update_username of lib.rs up to the sleep of
\* broadcast_user_update (lib.rs 395-402, discovery.rs 483-510): the name of
\* the local user of the application state is set, and the broadcast
\* returns its error when discovery is not running or has no daemon, or
\* unregisters the instance.  unregistered is the outcome of
\* daemon.unregister, which is ignored.
update_username(new_name, unregistered) ==
    /\ UNCHANGED <<ftvars, cmvars, receiver, last_resolved, addresses, emitted>>
    /\ UNCHANGED <<cmd, nextMsg, messages, wire, now, marked, reading, responding>>
    /\ dcall.pc = "idle"
    /\ Len(events[LocalId]) < MaxEvents
    /\ username' = new_name
    /\ IF ~is_running
         THEN /\ dcall' = [op |-> "broadcast_user_update", pc |-> "idle",
                           result |-> "DiscoveryError: Discovery not running"]
              /\ events' = emit_event(events, LocalId, "user_updated", UserNamed(new_name))
              /\ UNCHANGED <<advertising, txt>>
         ELSE IF daemon = NoDaemon
         THEN /\ dcall' = [op |-> "broadcast_user_update", pc |-> "idle",
                           result |-> "DiscoveryError: Daemon not initialized"]
              /\ events' = emit_event(events, LocalId, "user_updated", UserNamed(new_name))
              /\ UNCHANGED <<advertising, txt>>
         ELSE LET left == IF service_registered /\ unregistered
                            THEN advertising \ {daemon} ELSE advertising
              IN  /\ advertising' = left
                  /\ txt' = Registered(txt, left, discovery_user_name)
                  /\ dcall' = [op |-> "broadcast_user_update", pc |-> "register",
                               result |-> "None"]
                  /\ UNCHANGED events
    /\ UNCHANGED <<peers, is_running, service_registered, daemon, stop_tx, tasks, nextDaemon>>

\* broadcast_user_update after its sleep of 100 ms (discovery.rs 512-536):
\* ServiceInfo::new and daemon.register, whose failure returns MdnsError,
\* then the flag of the registration is set; update_username logs the error
\* of the broadcast, emits user_updated and returns the user.
broadcast_register(outcome) ==
    /\ UNCHANGED <<ftvars, cmvars, receiver, last_resolved, addresses, emitted, username>>
    /\ UNCHANGED <<cmd, nextMsg, messages, wire, now, marked, reading, responding>>
    /\ dcall.pc = "register"
    /\ dcall.op = "broadcast_user_update"
    /\ IF outcome = "register"
         THEN /\ UNCHANGED <<advertising, txt, service_registered>>
              /\ dcall' = [op |-> "broadcast_user_update", pc |-> "idle",
                           result |-> "MdnsError"]
         ELSE /\ advertising' = advertising \cup {daemon}
              /\ txt' = [d \in advertising \cup {daemon} |->
                           IF d = daemon THEN discovery_user_name ELSE txt[d]]
              /\ service_registered' = TRUE
              /\ dcall' = [op |-> "broadcast_user_update", pc |-> "idle",
                           result |-> "Ok"]
    /\ events' = emit_event(events, LocalId, "user_updated", UserNamed(username))
    /\ UNCHANGED <<peers, is_running, daemon, stop_tx, tasks, nextDaemon>>

\* Discovery is started once; time goes on until a record is as old as the
\* interval of the cleanup.
PeersNext ==
    \/ ~is_running /\ start_discovery("ok", FALSE)
    \/ \E new_name \in Names, unregistered \in BOOLEAN :
           update_username(new_name, unregistered)
    \/ \E outcome \in BroadcastOutcomes : broadcast_register(outcome)
    \/ \E t \in DaemonIds, info \in Infos : ServiceResolved(t, info)
    \/ \E t \in DaemonIds, id \in DirectoryIds : ServiceRemoved(t, FullName(id))
    \/ \E t \in DaemonIds : ServiceRemoved(t, OtherName)
    \/ \E t \in DaemonIds : cleanup_tick(t)
    \/ (\A u \in DOMAIN peers : peers[u] < DISCOVERY_INTERVAL) /\ Elapse

SpecPeers == Init /\ [][PeersNext]_vars

(***************************************************************************)
(* The message store of the running node: the commands send_message and    *)
(* mark_messages_as_read of the user while the wall clock of the node      *)
(* changes.  Every write is whole; the heartbeat sweep and the reading     *)
(* peers, which do not touch the store, are left out.                      *)
(***************************************************************************)
\* chrono::Utc::now() (lib.rs 187, chat.rs 145) reads the wall clock of the
\* system, which goes on and which a synchronisation or the user sets
\* forward or back: between two readings it comes to show the time t.
clock_change(t) ==
    /\ UNCHANGED <<ftvars, cmvars, discvars>>
    /\ t \in Times
    /\ t # now
    /\ now' = t
    /\ UNCHANGED <<cmd, nextMsg, messages, events, wire, marked, reading, responding>>

StoreNext ==
    \/ hb.pc = "off" /\ ~is_running /\ start_discovery("ok", FALSE)
    \/ is_running /\ start_heartbeat_service /\ UNCHANGED chatvars
    \/ \E t \in DaemonIds, id \in Recipients : ServiceResolved(t, Advertisement(id))
    \/ \E peer_id \in Recipients, content \in Contents :
           send_message_command(peer_id, content)
    \/ \E ok \in BOOLEAN : command_refresh(ok)
    \/ command_lookup_again
    \/ command_store
    \/ command_send
    \/ command_return
    \/ \E c \in Callers : get_or_create_check(c) /\ UNCHANGED chatvars
    \/ \E c \in Callers, ok \in BOOLEAN : connect(c, ok)
    \/ \E c \in Callers : get_or_create_insert(c) /\ UNCHANGED chatvars
    \/ \E c \in Callers : send_lock(c) /\ UNCHANGED chatvars
    \/ \E c \in Callers, ok \in BOOLEAN : write_message(c, ok, 0)
    \/ \E c \in Callers : send_remove(c) /\ UNCHANGED chatvars
    \/ \E peer_id \in MarkIds : mark_messages_as_read(peer_id)
    \/ \E peer_id \in Recipients, content \in Contents :
           send_message_with_peer_ip(peer_id, content)
    \/ \E ok \in BOOLEAN, n \in Torn : send_message_to_peer(ok, n)
    \/ \E n \in ReadLengths(wire[DirectStream].bytes) :
           handle_incoming_connection(DirectStream, n)
    \/ stop_chat_service
    \/ \E t \in Times : clock_change(t)

SpecStore == Init /\ [][StoreNext]_vars

\* Every command, message and task step of the file transfers, interleaved,
\* on the files that are streamed in fewer than MaxBlocks blocks; HappyNext
\* and CancelNext stream the files of MaxBlocks blocks.
LongFiles == {MaxBlocks * Block}
ShortFiles == FileSizes \ LongFiles
FTNext ==
    \/ \E n \in Senders, found \in BOOLEAN, meta \in PathInputs \ LongFiles :
           send_file(n, found, meta)
    \/ \E n \in Nodes, ok \in BOOLEAN : send_transfer_request(n, ok)
    \/ \E n \in Nodes, id \in TransferIds : accept_transfer(n, id)
    \/ \E n \in Nodes : accept_file_transfer(n)
    \/ \E n \in Nodes, id \in TransferIds : reject_transfer(n, id)
    \/ \E n \in Nodes, id \in TransferIds : cancel_transfer(n, id)
    \/ \E n \in Nodes, ok \in BOOLEAN : notify_transfer_status(n, ok)
    \/ \E m \in ctrl : handle_json(m)
    \/ \E s \in streams, len \in ShortFiles \cup {NoFile} : client_start(s, len)
    \/ \E s \in streams : client_io_error(s)
    \/ \E s \in streams, len \in ShortFiles \cup {NoFile} : server_lookup(s, len)
    \/ \E s \in streams : server_io_error(s)
    \/ \E s \in streams : send_file_data(s)
    \/ \E s \in streams : send_file_data_write_all(s)
    \/ \E s \in streams : send_file_data_update(s)
    \/ \E s \in streams : receive_file_data(s)
    \/ \E s \in streams : handle_file_data(s)
    \/ \E s \in streams : handle_request_file(s)
    \/ \E s \in streams : handle_request_file_write_all(s)
    \/ \E s \in streams : handle_request_file_update(s)

Spec == Init /\ [][FTNext]_vars
(***************************************************************************)
(* The offer-accept-stream path on its own: every dial and write succeeds, *)
(* the file is not changed after send_file_with_peer has read its length,  *)
(* only the recipient accepts, and nobody rejects or cancels.  The runtime *)
(* schedules every spawned task and the listener handles every connection, *)
(* which is the weak fairness of these steps.                              *)
(***************************************************************************)
IsRecipient(n, id) == Has(n, id) /\ transfers[n][id].recipient_id = local_user[n].id
IsSender(n, id) == Has(n, id) /\ transfers[n][id].sender_id = local_user[n].id

HappyOffer == \E n \in Senders, meta \in FileSizes : send_file(n, TRUE, meta)
HappyRequest == \E n \in Senders : send_transfer_request(n, TRUE)
HappyAccept ==
    \E n \in Nodes, id \in TransferIds :
        IsRecipient(n, id) /\ accept_transfer(n, id)
HappyAccepted == \E n \in Nodes : accept_file_transfer(n)
HappyJson == \E m \in ctrl : handle_json(m)
HappyClient == \E s \in streams : client_start(s, NoFile)
HappyServer ==
    \E s \in streams :
        Has(s.server, s.tid) /\ server_lookup(s, transfers[s.server][s.tid].file_size)
HappyReceive == \E s \in streams : receive_file_data(s)
HappyServe == \E s \in streams : handle_request_file(s)
HappyWrite == \E s \in streams : handle_request_file_write_all(s)
HappyUpdate == \E s \in streams : handle_request_file_update(s)

HappyNext ==
    \/ HappyOffer
    \/ HappyRequest
    \/ HappyAccept
    \/ HappyAccepted
    \/ HappyJson
    \/ HappyClient
    \/ HappyServer
    \/ HappyReceive
    \/ HappyServe
    \/ HappyWrite
    \/ HappyUpdate

SpecHappy ==
    /\ Init /\ [][HappyNext]_vars
    /\ WF_vars(HappyJson) /\ WF_vars(HappyClient) /\ WF_vars(HappyServer)
    /\ WF_vars(HappyReceive) /\ WF_vars(HappyServe) /\ WF_vars(HappyUpdate)
    /\ WF_vars(HappyRequest) /\ WF_vars(HappyWrite) /\ WF_vars(HappyAccepted)

(***************************************************************************)
(* The cancellation of a transfer that is streaming: only the recipient    *)
(* accepts, nobody rejects, and cancel_transfer is called only for a       *)
(* record that is InProgress.  The notification of the cancel goes to the  *)
(* sender, whose listener does not store a record addressed to another     *)
(* user, so a record is Cancelled only where cancel_transfer was called.   *)
(***************************************************************************)
CancelNext ==
    \/ \E n \in Senders, found \in BOOLEAN, meta \in PathInputs :
           send_file(n, found, meta)
    \/ \E n \in Nodes, id \in TransferIds :
            IsRecipient(n, id) /\ accept_transfer(n, id)
    \/ \E n \in Nodes : accept_file_transfer(n)
    \/ \E n \in Senders, ok \in BOOLEAN : send_transfer_request(n, ok)
    \/ \E n \in Nodes, id \in TransferIds :
            /\ Has(n, id)
            /\ transfers[n][id].status = "InProgress"
            /\ cancel_transfer(n, id)
    \/ \E n \in Nodes, ok \in BOOLEAN : notify_transfer_status(n, ok)
    \/ \E m \in ctrl : handle_json(m)
    \/ \E s \in streams, len \in FileSizes \cup {NoFile} : client_start(s, len)
    \/ \E s \in streams : client_io_error(s)
    \/ \E s \in streams, len \in FileSizes \cup {NoFile} : server_lookup(s, len)
    \/ \E s \in streams : server_io_error(s)
    \/ \E s \in streams : receive_file_data(s)
    \/ \E s \in streams : handle_request_file(s)
    \/ \E s \in streams : handle_request_file_write_all(s)
    \/ \E s \in streams : handle_request_file_update(s)

SpecCancel == Init /\ [][CancelNext]_vars

\* The offer of a file and what ends it without a streaming: the request on
\* the control connection, reject_transfer of the user it is offered to and
\* cancel_transfer of the user who offers, with their notifications.
OfferNext ==
    \/ \E n \in Senders, found \in BOOLEAN, meta \in PathInputs :
           send_file(n, found, meta)
    \/ \E n \in Senders, ok \in BOOLEAN : send_transfer_request(n, ok)
    \/ \E n \in Nodes \ Senders, id \in TransferIds : reject_transfer(n, id)
    \/ \E n \in Senders, id \in TransferIds : cancel_transfer(n, id)
    \/ \E n \in Nodes, ok \in BOOLEAN : notify_transfer_status(n, ok)
    \/ \E m \in ctrl : handle_json(m)

SpecOffer == Init /\ [][OfferNext]_vars

(***************************************************************************)
(* The claims about the file-transfer state machine.                       *)
(***************************************************************************)
Status(n, id) == transfers[n][id].status

\* C1: once a record is Completed, Rejected, Cancelled or Failed, no step
\* changes any field of it.
C1_TerminalImmutable ==
    [][\A n \in Nodes, id \in TransferIds :
          (Has(n, id) /\ Status(n, id) \in Terminal)
              => (Has(n, id)' /\ transfers'[n][id] = transfers[n][id])]_vars

Edges == {<<"Pending", "InProgress">>, <<"Pending", "Rejected">>,
          <<"Pending", "Cancelled">>, <<"InProgress", "Completed">>,
          <<"InProgress", "Cancelled">>, <<"InProgress", "Failed">>}

\* C2: on either node a record in a non-terminal status changes status only
\* along the edges of the state machine.
C2_OnlyEdges ==
    [][\A n \in Nodes, id \in TransferIds :
          (Has(n, id) /\ Has(n, id)' /\ Status(n, id) \notin Terminal
             /\ Status(n, id)' # Status(n, id))
              => <<Status(n, id), Status(n, id)'>> \in Edges]_vars

\* C3: bytes_transferred never exceeds file_size, on either node.
C3_BytesWithinSize ==
    \A n \in Nodes, id \in TransferIds :
        Has(n, id) => transfers[n][id].bytes_transferred <= transfers[n][id].file_size

\* C4: a Completed record has bytes_transferred = file_size.
C4_CompletedIsFull ==
    \A n \in Nodes, id \in TransferIds :
        (Has(n, id) /\ Status(n, id) = "Completed")
            => transfers[n][id].bytes_transferred = transfers[n][id].file_size

Full(n, id) ==
    /\ Has(n, id) /\ Status(n, id) = "Completed"
    /\ transfers[n][id].bytes_transferred = transfers[n][id].file_size

\* C5: when the recipient has accepted an offered file and the streaming has
\* run to its end without an I/O error, both the sender's and the recipient's
\* record are Completed with bytes_transferred = file_size.
C5_AcceptedCompletes ==
    \A n \in Nodes, id \in TransferIds :
        (IsRecipient(n, id) /\ transfers[n][id].destination_path # "None"
           /\ streams = {})
            => (Full(n, id) /\ Full(Peer(n), id))

\* C6: when the streaming of an accepted empty file has ended without an I/O
\* error, the record is Completed on the nodes that streamed it.
C6_EmptyFileCompletes ==
    \A n \in Nodes, id \in TransferIds :
        (IsRecipient(n, id) /\ Status(n, id) # "Pending"
           /\ transfers[n][id].file_size = 0 /\ streams = {})
            => (Status(n, id) = "Completed" /\ Status(Peer(n), id) = "Completed")

\* C7: when the listener of the sender handles the notification of the
\* recipient's rejection of a transfer that is Pending at the sender, the
\* sender's record becomes Rejected, and no file data is transmitted.
C7_RejectReachesSender ==
    [][\A m \in ctrl :
          (handle_json(m) /\ m.json.status = "Rejected"
             /\ IsSender(m.to, m.json.id) /\ Status(m.to, m.json.id) = "Pending")
              => (Status(m.to, m.json.id)' = "Rejected" /\ streams' = streams)]_vars

(***************************************************************************)
(* The claims about the connection manager.                                *)
(***************************************************************************)
\* The map holds an active, non-idle entry for the peer.
Cached(peer_id) ==
    /\ connections[peer_id] # NoConn
    /\ conns[connections[peer_id]].is_active
    /\ ~is_idle(conns[connections[peer_id]])

\* C8: when send_message has returned the error of a failed or timed-out
\* write, the connection it wrote on is marked inactive and is in the map
\* under no peer-id, and the map holds no entry for the peer that a next send
\* would reuse: the next send to that peer dials.
C8_FailedSendRemoved ==
    \A c \in Callers :
        (call[c].pc = "idle" /\ call[c].result = "NetworkError: Message send failed")
            => /\ ~conns[call[c].connection].is_active
               /\ \A p \in PeerIds : connections[p] # call[c].connection
               /\ ~Cached(call[c].peer_id)

\* A send_message has returned the error of a failed write on a connection
\* it had found in the map.
C8_Witness ==
    \E c \in Callers :
        /\ call[c].pc = "idle"
        /\ call[c].result = "NetworkError: Message send failed"
        /\ call[c].connection + 1 < nextConn

\* C9: get_or_create_connection returns the entry of the map without dialing
\* whenever that entry is active and not idle, and goes on to dial otherwise;
\* a failed or timed-out dial returns a NetworkError; and on the way to that
\* error no step of the call changes the connection map.
C9_GetOrCreate ==
    [][\A c \in Callers :
         /\ (call[c].pc = "check" /\ call'[c].pc # "check") =>
                /\ connections' = connections
                /\ nextConn' = nextConn
                /\ IF Cached(call[c].peer_id)
                     THEN /\ call'[c].pc = "lock"
                          /\ call'[c].connection = connections[call[c].peer_id]
                     ELSE call'[c].pc = "dial"
         /\ (call[c].pc = "dial" /\ call'[c].pc = "idle") =>
                /\ call'[c].result = "NetworkError: Connection failed"
                /\ connections' = connections
                /\ nextConn' = nextConn
      ]_vars

\* A dial has failed while the map held an entry for the peer that was not
\* to be reused: the call has returned the NetworkError and the entry is
\* still there.
C9_Witness ==
    \E c \in Callers :
        /\ call[c].pc = "idle"
        /\ call[c].result = "NetworkError: Connection failed"
        /\ connections[call[c].peer_id] # NoConn
        /\ ~Cached(call[c].peer_id)

\* C10: every connection in the map whose active-flag is true has had
\* activity less than CONNECTION_IDLE_TIMEOUT seconds ago.
C10_ActiveIsFresh ==
    \A p \in PeerIds :
        (connections[p] # NoConn /\ conns[connections[p]].is_active)
            => conns[connections[p]].idle_for < CONNECTION_IDLE_TIMEOUT

\* C11: an entry of the map that the heartbeat sweep has marked for removal
\* (its connection is inactive or idle, or its heartbeat failed or timed out)
\* is eventually removed from the map.
C11_MarkedIsRemoved ==
    \A p \in PeerIds :
        (p \in hb.connections_to_remove) ~> (connections[p] = NoConn)

(***************************************************************************)
(* The claims about the network discovery.                                 *)
(***************************************************************************)
\* C12: the peer directory never holds a record under the id of the local
\* user.
C12_NoSelfInDirectory == LocalId \notin DOMAIN peers

\* The last advertisement an event-processor task has resolved is the node's
\* own, and the directory holds a peer.
C12_Witness == last_resolved = LocalId /\ peers # <<>>

\* C13: every record of the peer directory has been seen less than
\* PEER_TIMEOUT seconds ago.
C13_DirectoryIsFresh == \A u \in DOMAIN peers : peers[u] < PEER_TIMEOUT

\* C14: from the return of stop_discovery until the next discovery command
\* the peer directory is empty and no daemon advertises the node.
C14_StoppedIsSilent ==
    (dcall.op = "stop_discovery" /\ dcall.pc = "idle")
        => (peers = <<>> /\ advertising = {})

\* C15: start_discovery with the running flag set returns DiscoveryError,
\* stop_discovery with the flag clear returns Ok, and neither changes the
\* state of the discovery.
C15_Idempotent ==
    [][/\ \A outcome \in StartOutcomes, early \in BOOLEAN :
            (is_running /\ start_discovery(outcome, early)) =>
                /\ dcall'.result = "DiscoveryError: Discovery already running"
                /\ UNCHANGED <<peers, is_running, service_registered, daemon, stop_tx,
                               advertising, tasks, nextDaemon>>
       /\ (~is_running /\ stop_discovery) =>
                /\ dcall' = [op |-> "stop_discovery", pc |-> "idle", result |-> "Ok"]
                /\ UNCHANGED <<peers, is_running, service_registered, daemon, stop_tx,
                               advertising, tasks, nextDaemon>>
      ]_vars

\* start_discovery has returned DiscoveryError while discovery goes on
\* running with a peer in the directory.
C15_Witness ==
    /\ dcall.result = "DiscoveryError: Discovery already running"
    /\ is_running /\ daemon # NoDaemon /\ peers # <<>>

(***************************************************************************)
(* The claims about the messaging.                                         *)
(***************************************************************************)
\* The message_sent events of the node that carry the message of this id.
SentEvents(id) ==
    {i \in DOMAIN events[LocalId] :
        /\ events[LocalId][i].name = "message_sent"
        /\ events[LocalId][i].payload.id = id}
\* The message is in the bucket of the local user.
InBucket(message) ==
    \E i \in DOMAIN messages[LocalId] : messages[LocalId][i] = message

\* C16: from the call of the connection manager on, the message of a send
\* is in the bucket of the local user; while the call is in progress, and
\* after it has failed, no message_sent event carries the message, and the
\* command returns an error exactly if the call has failed; after it has
\* succeeded exactly one message_sent event carries the message.
C16_StoredThenSent ==
    /\ cmd.pc \in {"send", "sending"} =>
          InBucket(cmd.message) /\ SentEvents(cmd.message.id) = {}
    /\ call["ui"].pc # "idle" => cmd.pc = "sending"
    /\ (cmd.pc = "idle" /\ cmd.message # NoMessage) =>
          /\ InBucket(cmd.message)
          /\ (cmd.result = "Ok") = (call["ui"].result = "Ok")
          /\ cmd.result # "Ok" =>
                cmd.result = "Err: NetworkError" /\ SentEvents(cmd.message.id) = {}
          /\ cmd.result = "Ok" =>
                /\ Cardinality(SentEvents(cmd.message.id)) = 1
                /\ \A i \in SentEvents(cmd.message.id) :
                       events[LocalId][i].payload = cmd.message

\* A send has failed in the network after an earlier one had succeeded: the
\* bucket holds both messages and one message_sent event has been emitted.
C16_Witness ==
    /\ cmd.pc = "idle" /\ cmd.result = "Err: NetworkError"
    /\ Len(messages[LocalId]) = 2
    /\ InBucket(cmd.message)
    /\ \E i \in DOMAIN events[LocalId] : events[LocalId][i].name = "message_sent"

\* C17: a send to a peer-id that is not in the directory refreshes the
\* discovery once and looks the peer up once more; if the peer is still not
\* in the directory the command returns the peer-not-found error; and from
\* the first lookup to the second the store, the message_sent events, the
\* call of the connection manager and the connections dialled do not
\* change.  If the second lookup finds the peer the command goes on to
\* build and store the message as for a peer the first lookup found.
C17_RefreshOnce ==
    [][/\ (cmd.pc = "idle" /\ cmd'.pc # "idle" /\ cmd'.peer_id \notin DOMAIN peers) =>
              /\ cmd'.pc = "refresh" /\ cmd'.refreshes = 0 /\ cmd'.lookups = 1
              /\ UNCHANGED <<messages, events, call, nextConn, nextMsg, wire>>
       /\ (cmd.pc = "refresh" /\ cmd' # cmd) =>
              cmd'.pc = "again" /\ cmd'.refreshes = 1 /\ cmd'.lookups = 1
       /\ (cmd.pc = "again" /\ cmd' # cmd) =>
              /\ cmd'.refreshes = 1 /\ cmd'.lookups = 2
              /\ IF cmd.peer_id \notin DOMAIN peers
                   THEN /\ cmd'.pc = "idle"
                        /\ cmd'.result = "Err: Peer not found"
                        /\ cmd'.message = NoMessage
                   ELSE cmd'.pc = "store"
       /\ cmd.pc \in {"refresh", "again"} =>
              /\ UNCHANGED <<messages, call, nextConn, nextMsg>>
              /\ \A u \in Recipients : connections'[u] # NoConn => connections[u] # NoConn
              /\ \A i \in DOMAIN events'[LocalId] :
                     events'[LocalId][i].name = "message_sent" => i \in DOMAIN events[LocalId]
       /\ (cmd.pc = "store" /\ cmd' # cmd) =>
              /\ cmd'.pc = "send"
              /\ cmd'.message = NewMessage(Uuid(nextMsg), cmd.peer_id, cmd.content, now)
              /\ messages'[LocalId] = Append(messages[LocalId], cmd'.message)
      ]_vars

\* A send has returned the peer-not-found error after one refresh and two
\* lookups, and nothing has been stored or dialled.
C17_Witness ==
    /\ cmd.pc = "idle" /\ cmd.result = "Err: Peer not found"
    /\ cmd.refreshes = 1 /\ cmd.lookups = 2
    /\ messages[LocalId] = <<>> /\ nextConn = 1

\* C18: every message_received event the node of a peer has emitted carries
\* the id and the content of a message the local node has built for that
\* peer and stored, and the id of the local user as its sender_id.
C18_ReceivedAsSent ==
    \A p \in PeerIds : \A i \in DOMAIN events[p] :
        events[p][i].name = "message_received" =>
            \E j \in DOMAIN messages[LocalId] :
                /\ events[p][i].payload.id = messages[LocalId][j].id
                /\ events[p][i].payload.content = messages[LocalId][j].content
                /\ events[p][i].payload.sender_id = LocalId
                /\ messages[LocalId][j].recipient_id = p

\* The node of a peer has emitted message_received for two messages.
C18_Witness ==
    \E p \in PeerIds :
        /\ Len(events[p]) = 2
        /\ events[p][1].name = "message_received"
        /\ events[p][2].name = "message_received"
        /\ events[p][1].payload.id # events[p][2].payload.id

\* C19: if the local node has emitted message_sent for two messages to the
\* same peer, and the node of that peer has emitted message_received for
\* both, it has emitted them in the same order.
C19_InOrder ==
    \A p \in PeerIds : \A i, j \in DOMAIN events[LocalId] :
        ( /\ i < j
          /\ events[LocalId][i].name = "message_sent"
          /\ events[LocalId][j].name = "message_sent"
          /\ events[LocalId][i].payload.recipient_id = p
          /\ events[LocalId][j].payload.recipient_id = p )
        => \A a, b \in DOMAIN events[p] :
              ( /\ events[p][a].payload.id = events[LocalId][i].payload.id
                /\ events[p][b].payload.id = events[LocalId][j].payload.id )
              => a < b

\* C20: when the read loop of the local node dispatches the envelope of a
\* message, a message to the local user is appended to the bucket of its
\* sender and message_received is emitted; a message to somebody else
\* changes neither the store nor the events.
C20_InboundStored ==
    [][\A k \in StreamIds : \A n \in 1..Len(wire[k].bytes) :
          LET json_value == from_slice(SubSeq(wire[k].bytes, 1, n))
              parsed == from_value(json_value.data)
          IN ( /\ wire[k].to = LocalId
               /\ handle_incoming_connection(k, n)
               /\ json_value.ok /\ json_value.type = "message" /\ parsed.ok )
             => IF parsed.message.recipient_id = LocalId
                  THEN /\ messages' = [messages EXCEPT ![parsed.message.sender_id] =
                                           Append(@, parsed.message)]
                       /\ events' = emit_event(events, LocalId, "message_received",
                                               parsed.message)
                  ELSE UNCHANGED <<messages, events>>
      ]_vars

(***************************************************************************)
(* The claims about the message store.                                     *)
(***************************************************************************)
\* C21: mark_messages_as_read(peer_id) returns Ok and leaves the store as it
\* was except that, in the bucket of peer_id, the messages to the local user
\* have read = true; marking once more changes nothing; and no step turns a
\* read flag from true to false or takes a message out of a bucket.
C21_MarkRead ==
    [][/\ \A peer_id \in MarkIds :
              mark_messages_as_read(peer_id) =>
                  /\ marked'.result = "Ok"
                  /\ DOMAIN messages' = DOMAIN messages
                  /\ \A u \in DOMAIN messages :
                        /\ Len(messages'[u]) = Len(messages[u])
                        /\ \A i \in DOMAIN messages[u] :
                              messages'[u][i] =
                                  IF u = peer_id /\ messages[u][i].recipient_id = LocalId
                                  THEN [messages[u][i] EXCEPT !.read = TRUE]
                                  ELSE messages[u][i]
                  /\ MarkBucket(messages', peer_id) = messages'
       /\ \A u \in DOMAIN messages : \A i \in DOMAIN messages[u] :
              messages[u][i].read =>
                  i \in DOMAIN messages'[u] /\ messages'[u][i].read
      ]_vars

\* The bucket of a peer has been marked: it holds a message to the local
\* user, read, and an unread message to somebody else.
C21_Witness ==
    /\ marked.result = "Ok" /\ marked.peer_id \in PeerIds
    /\ \E i, j \in DOMAIN messages[marked.peer_id] :
          /\ messages[marked.peer_id][i].recipient_id = LocalId
          /\ messages[marked.peer_id][i].read
          /\ messages[marked.peer_id][j].recipient_id # LocalId
          /\ ~messages[marked.peer_id][j].read

\* C22: in every bucket of the message store a message has a timestamp not
\* before the timestamps of the messages pushed before it.
C22_TimestampsInOrder ==
    \A u \in DOMAIN messages : \A i, j \in DOMAIN messages[u] :
        i < j => messages[u][i].timestamp <= messages[u][j].timestamp

(***************************************************************************)
(* The claims about the directory of peers.                                *)
(***************************************************************************)
\* C23: update_username with discovery running registers an instance whose
\* TXT record "user" carries the new name; with discovery not running
\* broadcast_user_update returns DiscoveryError and leaves the registration
\* as it is.
C23_BroadcastsNewName ==
    [][/\ \A new_name \in Names, unregistered \in BOOLEAN :
             update_username(new_name, unregistered) =>
                (~is_running =>
                    /\ dcall'.result = "DiscoveryError: Discovery not running"
                    /\ UNCHANGED <<service_registered, advertising, txt>>)
       /\ \A outcome \in BroadcastOutcomes :
             broadcast_register(outcome) =>
                (dcall'.result = "Ok" =>
                    (daemon \in advertising' /\ txt'[daemon] = username))]_vars

\* C24: a ServiceResolved event of a user other than the local one leaves the
\* record of that user with an address of this response (the address of the
\* TXT record if the response has none) and last_seen = now, leaves the other
\* records as they are and emits one peer_discovered with that record; an
\* event of the local user changes nothing and emits nothing.
C24_Resolved ==
    [][\A t \in DaemonIds, info \in Infos :
          ServiceResolved(t, info) =>
             IF info.user.id # LocalId
               THEN /\ DOMAIN peers' = (DOMAIN peers) \cup {info.user.id}
                    /\ DOMAIN addresses' = DOMAIN peers'
                    /\ peers'[info.user.id] = 0
                    /\ IF info.addresses = {}
                         THEN addresses'[info.user.id] = info.user.ip
                         ELSE addresses'[info.user.id] \in info.addresses
                    /\ \A u \in (DOMAIN peers) \ {info.user.id} :
                          peers'[u] = peers[u] /\ addresses'[u] = addresses[u]
                    /\ emitted' = <<[name |-> "peer_discovered",
                                     payload |-> [id |-> info.user.id,
                                                  ip |-> addresses'[info.user.id]]]>>
               ELSE /\ UNCHANGED <<peers, addresses>>
                    /\ emitted' = <<>>]_vars

\* The user resolved last has a record just seen at the address of the
\* response, which is not the address of its TXT record, next to an older
\* record of another user.
C24_Witness ==
    /\ last_resolved = "user-87654321"
    /\ emitted = <<[name |-> "peer_discovered",
                    payload |-> [id |-> "user-87654321", ip |-> "192.168.1.12"]]>>
    /\ "user-87654321" \in DOMAIN peers
    /\ peers["user-87654321"] = 0
    /\ addresses["user-87654321"] = "192.168.1.12"
    /\ "user-8765" \in DOMAIN peers
    /\ peers["user-8765"] > 0
    /\ addresses["user-8765"] = "192.168.1.11"

\* The id is a part of the name: the name is some text, the id, some text.
IsPartOf(id, name) ==
    \E i \in 0..Len(name) : \E j \in i..Len(name) : SubSeq(name, i + 1, j) = Text(id)
\* The instance names of the ServiceRemoved events.
RemovedNames == {FullName(id) : id \in DirectoryIds} \cup {OtherName}
\* The instance names an id is a part of.
NamesWith == [id \in DirectoryIds |-> {name \in RemovedNames : IsPartOf(id, name)}]

\* C25: a ServiceRemoved event removes the records whose id is a part of the
\* instance name and no other record, and emits peers_updated with the
\* records that remain if and only if the count of the records has changed.
C25_Removed ==
    [][\A t \in DaemonIds, name \in RemovedNames :
          ServiceRemoved(t, name) =>
             /\ DOMAIN peers' = {u \in DOMAIN peers : name \notin NamesWith[u]}
             /\ DOMAIN addresses' = DOMAIN peers'
             /\ \A u \in DOMAIN peers' :
                   peers'[u] = peers[u] /\ addresses'[u] = addresses[u]
             /\ emitted' = IF Cardinality(DOMAIN peers') # Cardinality(DOMAIN peers)
                             THEN <<[name |-> "peers_updated", payload |-> DOMAIN peers']>>
                             ELSE <<>>]_vars

\* A removal has dropped the record of one user and kept the record of the
\* user whose id only begins like the id of the first.
C25_Witness ==
    /\ emitted = <<[name |-> "peers_updated", payload |-> {"user-87654321"}]>>
    /\ DOMAIN peers = {"user-87654321"}
    /\ last_resolved = "user-8765"

(***************************************************************************)
(* The claims about the locks of the connection manager.                   *)
(***************************************************************************)
\* C26: while the heartbeat sweep has a heartbeat write pending, the lock of
\* the connection map is free, so that a call for another peer that is about
\* to take it can go on.
C26_SweepReleasesMap ==
    \A c \in Callers :
        (/\ hb.pc \in {"lock", "write"}
         /\ call[c].pc \in {"check", "insert"}
         /\ call[c].peer_id # hb.peer_id)
        => map_lock = "none"

\* The tasks that write on the streams of the connection manager.
Writers == Clients \cup {"heartbeat"}
\* Writer w is within its write: it has the guard of a stream and its
\* write_all has not returned.
Writing(w) ==
    IF w = "heartbeat" THEN hb.pc \in {"write", "rest"}
                       ELSE call[w].pc \in {"write", "rest"}
\* The connection writer w writes on, and the text it writes.
StreamOf(w) == IF w = "heartbeat" THEN connections[hb.peer_id] ELSE call[w].connection
TextOf(w) == IF w = "heartbeat" THEN HeartbeatText ELSE MessageText(w)
\* A text is one complete envelope, of a message or of a heartbeat.
IsEnvelope(text) ==
    LET json_value == from_slice(text)
    IN /\ json_value.ok
       /\ \/ json_value.type = "message" /\ from_value(json_value.data).ok
          \/ json_value.type = "heartbeat" /\ json_value.data = <<>>
\* The bytes are complete envelopes one after the other.
RECURSIVE Envelopes(_)
Envelopes(bytes) ==
    \/ bytes = <<>>
    \/ \E n \in 1..Len(bytes) :
          /\ bytes[n] = Close
          /\ IsEnvelope(SubSeq(bytes, 1, n))
          /\ Envelopes(SubSeq(bytes, n + 1, Len(bytes)))
\* The pieces on stream k of the writes that have not returned.
Unfinished(k) ==
    LET ws == {w \in Writers : Writing(w) /\ StreamOf(w) = k}
        at_rest(w) == IF w = "heartbeat" THEN hb.pc = "rest" ELSE call[w].pc = "rest"
    IN IF \E w \in ws : at_rest(w)
       THEN FirstPiece(TextOf(CHOOSE w \in ws : at_rest(w)))
       ELSE <<>>

\* The places of the bytes at which the text begins that lies whole within
\* them.
PlacesOf(text, bytes) ==
    {i \in 1..(Len(bytes) - Len(text) + 1) : SubSeq(bytes, i, i + Len(text) - 1) = text}

\* C27: no two writes of envelopes, of two messages or of a message and a
\* heartbeat, are in progress on one connection at once; on a connection no
\* write has failed on, the bytes on the wire are complete envelopes one
\* after the other, followed by the piece of the one write in progress if
\* there is one; and when the calls of two tasks that have sent at the same
\* time to the same cached peer have both returned Ok, the wire of the
\* connection holds their two envelopes complete, one after the other.
C27_OneWriter ==
    /\ \A v, w \in Writers :
          (v # w /\ Writing(v) /\ Writing(w)) => StreamOf(v) # StreamOf(w)
    /\ \A k \in DOMAIN conns :
          conns[k].is_active =>
             \E n \in 0..Len(wire[k].bytes) :
                /\ Envelopes(SubSeq(wire[k].bytes, 1, n))
                /\ SubSeq(wire[k].bytes, n + 1, Len(wire[k].bytes)) = Unfinished(k)
    /\ \A c, d \in Clients :
          (/\ c # d
           /\ call[c].pc = "idle" /\ call[c].result = "Ok"
           /\ call[d].pc = "idle" /\ call[d].result = "Ok"
           /\ call[c].connection = call[d].connection
           /\ call[c].connection # NoConn)
             => \E i \in PlacesOf(MessageText(c), wire[call[c].connection].bytes),
                   j \in PlacesOf(MessageText(d), wire[call[c].connection].bytes) :
                    \/ i + Len(MessageText(c)) <= j
                    \/ j + Len(MessageText(d)) <= i

\* One task is within its write, the first piece of its envelope on the
\* stream, and the other task, which sends to the same cached peer, waits
\* for the guard of that stream, as does the sweep with its heartbeat.
C27_Witness ==
    /\ call["ui"].pc = "rest"
    /\ call["other"].pc = "lock"
    /\ call["other"].connection = call["ui"].connection
    /\ connections[call["ui"].peer_id] = call["ui"].connection
    /\ hb.pc = "lock"
    /\ connections[hb.peer_id] = call["ui"].connection
    /\ wire[call["ui"].connection].bytes = FirstPiece(MessageText("ui"))

(***************************************************************************)
(* The claims about the streaming tasks of the file transfer.              *)
(***************************************************************************)
\* C28: once cancel_transfer has returned for a transfer that was InProgress,
\* the record of the node stays Cancelled and its bytes_transferred stays
\* what it is: the streaming task updates it no more.
C28_CancelStops ==
    [][\A n \in Nodes, id \in TransferIds :
          (Has(n, id) /\ transfers[n][id].status = "Cancelled" /\ fcall[n].pc = "idle")
              => /\ Has(n, id)'
                 /\ transfers'[n][id].status = "Cancelled"
                 /\ transfers'[n][id].bytes_transferred
                       = transfers[n][id].bytes_transferred]_vars

\* C29: an I/O error that interrupts the streaming leaves the record of the
\* node of the failing task Failed with an error string, in the spawned
\* task and in the connection task of the listener alike; and every record
\* that is Failed carries an error string.
C29_ErrorsFail ==
    /\ [](\A n \in Nodes, id \in TransferIds :
             (Has(n, id) /\ transfers[n][id].status = "Failed")
                 => transfers[n][id].error # "None")
    /\ [][\A s \in streams :
             /\ (s.cpc \in {"loop", "write"} /\ Has(s.client, s.tid) /\ client_io_error(s))
                   => /\ transfers'[s.client][s.tid].status = "Failed"
                      /\ transfers'[s.client][s.tid].error # "None"
             /\ (s.spc \in {"loop", "write"} /\ Has(s.server, s.tid) /\ server_io_error(s))
                   => /\ transfers'[s.server][s.tid].status = "Failed"
                      /\ transfers'[s.server][s.tid].error # "None"]_vars

(***************************************************************************)
(* The claims about the read loop of the chat service.                     *)
(***************************************************************************)
\* The places of a buffer at which a heartbeat envelope begins that lies
\* whole within the buffer.
Heartbeats(buffer) ==
    {i \in 1..(Len(buffer) - 2) : SubSeq(buffer, i, i + 2) = to_string("heartbeat", <<>>)}

\* C30: a turn of the read loop writes one heartbeat_response for every
\* heartbeat envelope its read has delivered (the read delivers at most one,
\* the handler goes to write a response exactly when it has delivered one,
\* and the write that succeeds is one response) and goes on reading, unless
\* the write of the response fails; it emits an event only for a message to
\* the local user; and a read that gives no bytes, fails or times out ends
\* the loop.
C30_HeartbeatsAnswered ==
    [][/\ \A n \in 1..Len(wire[InboundStream].bytes) :
             handle_incoming_connection(InboundStream, n) =>
                LET buffer == SubSeq(wire[InboundStream].bytes, 1, n)
                IN /\ Cardinality(Heartbeats(buffer)) <= 1
                   /\ responding'[InboundStream] <=> Heartbeats(buffer) # {}
                   /\ reading'[InboundStream]
                   /\ Len(events'[LocalId]) <= Len(events[LocalId]) + 1
                   /\ \A i \in (DOMAIN events'[LocalId]) \ (DOMAIN events[LocalId]) :
                         /\ events'[LocalId][i].name = "message_received"
                         /\ events'[LocalId][i].payload.recipient_id = LocalId
       /\ \A written \in BOOLEAN :
             handle_incoming_connection_write_all(InboundStream, written) =>
                /\ wire'[InboundStream].responses
                      = wire[InboundStream].responses + (IF written THEN 1 ELSE 0)
                /\ reading'[InboundStream] <=> written
                /\ ~responding'[InboundStream]
                /\ events' = events
       /\ \A end \in ReadEnds :
             read_break(InboundStream, end) => ~reading'[InboundStream]]_vars

(***************************************************************************)
(* The claims about the offer of a file.                                   *)
(***************************************************************************)
\* What send_file_with_peer does up to its await on a path of which the
\* length is meta, and what the failure of the request leaves.
OfferStored(n, meta) ==
    /\ ~Has(n, nextId)
    /\ DOMAIN transfers'[n] = (DOMAIN transfers[n]) \cup {nextId}
    /\ transfers'[n][nextId].status = "Pending"
    /\ transfers'[n][nextId].bytes_transferred = 0
    /\ \A id \in DOMAIN transfers[n] : transfers'[n][id] = transfers[n][id]
    /\ \A m \in Nodes \ {n} : transfers'[m] = transfers[m]
    /\ UNCHANGED ctrl
RequestFailed(n) ==
    LET id == fcall[n].transfer.id
    IN /\ fcall'[n].pc = "idle" /\ fcall'[n].result = "NetworkError"
       /\ UNCHANGED <<transfers, ctrl>>
       /\ Has(n, id)
       /\ transfers[n][id].status = "Pending"
       /\ transfers[n][id].bytes_transferred = 0

C32_RequestStoredAndEmitted ==
    [][\A m \in ctrl :
          handle_json(m) =>
             LET transfer == FromJson(m.json)
                 u == local_user[m.to].id
             IN IF transfer.recipient_id = u
                  THEN /\ transfers'[m.to][transfer.id] = transfer
                       /\ Len(events'[u]) = Len(events[u]) + 1
                  ELSE UNCHANGED <<transfers, events>>]_vars

(***************************************************************************)
(* The claims about the threads of a discovery session.                    *)
(***************************************************************************)
\* C33: while the session that start_discovery has started with success is
\* the current one and the running flag is set, the receiver thread of the
\* session is in its loop, whenever the thread was first scheduled.
C33_ReceiverRuns ==
    \A t \in DaemonIds : (is_running /\ stop_tx = t /\ t \in DOMAIN tasks) => t \in receiver

(***************************************************************************)
(* The claims about the locks of the connection manager.                   *)
(***************************************************************************)
\* C34: send_message and the heartbeat sweep never wait for each other: no
\* call waits in remove_connection for the lock of the map, the guard of its
\* stream held, while the sweep holds the lock of the map and waits in
\* send_heartbeat for the lock of that stream.
C34_NoDeadlock ==
    \A c \in Callers :
        ~ /\ call[c].pc = "remove"
          /\ stream_lock[call[c].connection] = c
          /\ map_lock = "heartbeat"
          /\ hb.pc = "lock"
          /\ connections[hb.peer_id] = call[c].connection

\* C35: the removal phase of the heartbeat sweep takes out of the map only
\* connections the sweep has found inactive, idle or failing: a connection
\* that is active and not idle, as the one get_or_create_connection has
\* stored for the peer-id since the check phase, is in the map afterwards.
C35_SweepRemovesOnlyDead ==
    [][heartbeat_remove =>
          \A p \in PeerIds :
              (/\ connections[p] # NoConn
               /\ conns[connections[p]].is_active
               /\ ~is_idle(conns[connections[p]]))
                  => connections'[p] = connections[p]]_vars

\* C36: a write of send_message or of send_heartbeat is made only on a
\* connection whose active-flag is set: nothing is written on a connection
\* after set_inactive.
C36_NoWriteWhenInactive ==
    [][/\ \A c \in Callers, ok \in BOOLEAN :
            send_write(c, ok) => conns[call[c].connection].is_active
       /\ \A ok \in BOOLEAN :
            send_heartbeat(ok) => conns[connections[hb.peer_id]].is_active]_vars

\* C37: two calls of get_or_create_connection that run at the same time for
\* a peer-id without a usable entry dial once between them: at no time does
\* each of the two hold a connection it has dialed for that peer-id and that
\* the map does not hold.
C37_SingleDial ==
    \A c, d \in Clients :
        (c # d /\ call[c].peer_id = call[d].peer_id)
            => ~(call[c].pc = "insert" /\ call[d].pc = "insert")

\* C38: the running flag is set as long as the current session is live,
\* that is from the start_discovery that has started it to the
\* stop_discovery that signals its task; the exit of the task of an earlier
\* session does not clear it.
C38_FlagOfLiveSession ==
    \A t \in DaemonIds :
        (stop_tx = t /\ t \in DOMAIN tasks /\ ~tasks[t].stop) => is_running

(***************************************************************************)
(* The claims about the framing of the envelopes.                          *)
(***************************************************************************)
\* The places of a buffer at which the envelope of a message to the local
\* user begins that lies whole within the buffer.
MessagesIn(buffer) ==
    {i \in 1..Len(buffer) :
        \E message \in RemoteMessages :
            /\ message.recipient_id = LocalId
            /\ i + Len(to_string("message", MessageData(message))) - 1 <= Len(buffer)
            /\ SubSeq(buffer, i, i + Len(to_string("message", MessageData(message))) - 1)
                  = to_string("message", MessageData(message))}

\* C39: however the reads divide the bytes, a turn of the read loop
\* dispatches every envelope that its read has completed, one event for
\* each message to the local user, and the bytes of an envelope that the
\* read has not completed stay to be decoded with the bytes of the next read.
C39_EnvelopesDispatchedOnce ==
    [][\A n \in 1..Len(wire[InboundStream].bytes) :
          handle_incoming_connection(InboundStream, n) =>
             LET buffer == SubSeq(wire[InboundStream].bytes, 1, n)
                 rest == SubSeq(wire[InboundStream].bytes, n + 1,
                                Len(wire[InboundStream].bytes))
                 ends == {i \in 1..n : buffer[i] = Close}
                 last == IF ends = {} THEN 0
                         ELSE CHOOSE i \in ends : \A j \in ends : j <= i
             IN /\ Len(events'[LocalId])
                      = Len(events[LocalId]) + Cardinality(MessagesIn(buffer))
                /\ wire'[InboundStream].bytes = SubSeq(buffer, last + 1, n) \o rest]_vars

(***************************************************************************)
(* The claims about the withdrawal of an instance.                         *)
(***************************************************************************)
\* C40: ServiceRemoved of the instance of a user removes at most the record
\* of that user: the record of every other user stays in the directory, also
\* of one whose id is a part of the id of the user withdrawn.
C40_OnlyTheWithdrawn ==
    [][\A t \in DaemonIds, id \in DirectoryIds :
          ServiceRemoved(t, FullName(id)) =>
             \A q \in (DOMAIN peers) \ {id} :
                 q \in DOMAIN peers' /\ peers'[q] = peers[q]]_vars

====
